---- MODULE Spec2Model ----
(***************************************************************************)
(* ScholarSentinel diagram forensics: hash index (image_hashing.py),       *)
(* feature comparison (opencv_compare.py), reverse search                  *)
(* (auto_reverse_search.py), region extraction (pdf_extractor.py) and the  *)
(* evidence aggregation of plagiarism_engine.py.                           *)
(*                                                                         *)
(* Number representations                                                  *)
(*   confidence       hundredths (0.3 is 30); every sum of the weights     *)
(*                    0.3, 0.4, 0.2, 0.3 taken in the order of the code    *)
(*                    falls on the same side of 0.4 and 0.7 in IEEE        *)
(*                    doubles as in exact arithmetic                       *)
(*   hash similarity  1 - d/256 is kept as the integer 256 - d             *)
(*   orbScore, ssim   percent (0.75 is 75)                                 *)
(*   matchPercentage  tenths of a percent: orb*4 + ssim*6                  *)
(***************************************************************************)
EXTENDS Integers, Sequences, FiniteSets, TLC

VARIABLES
    files,            \* file system: image path -> image content, or Unreadable
    db,               \* table diagram_hashes, rows in rowid order
    env,              \* engine construction: reference_dir, comparator, searcher
    pc,               \* position of the running operation
    report,           \* the report _analyze_diagram is building
    diagram_reports,  \* analyze_pdf: reports appended so far
    extracted_paths,  \* analyze_pdf: list returned by extract_diagrams
    final_report,     \* analyze_pdf: returned document report
    doc,              \* the document under analysis
    similar_images,   \* result of the last find_similar
    last,             \* inputs and result of the last pure call
    writers,          \* concurrent store_hashes calls: one record per caller
    lock              \* the caller holding the database write lock

vars == <<files, db, env, pc, report, diagram_reports, extracted_paths,
          final_report, doc, similar_images, last, writers, lock>>

\* no concurrent callers, write lock free
NoWriters == <<>>
NoLock == "free"

\* content of a file that Image.open cannot read
Unreadable == 0

----------------------------------------------------------------------------
(* Sequence helpers *)

Range(s) == {s[i] : i \in DOMAIN s}

\* the subsequence of s at the positions idx, in order
Select(s, idx) ==
    [k \in 1..Cardinality(idx) |->
        s[CHOOSE i \in idx : Cardinality({j \in idx : j <= i}) = k]]

\* list.sort(reverse=True) on the keys key[i] of s[i]: stable, ties keep
\* their input order
SortDesc(s, key) ==
    LET Rank(i) == 1 + Cardinality({j \in DOMAIN s :
                        \/ key[j] > key[i]
                        \/ key[j] = key[i] /\ j < i})
    IN  [k \in DOMAIN s |-> s[CHOOSE i \in DOMAIN s : Rank(i) = k]]

Prefix(s, n) == SubSeq(s, 1, IF Len(s) < n THEN Len(s) ELSE n)

Min(a, b) == IF a < b THEN a ELSE b
Max(a, b) == IF a > b THEN a ELSE b

----------------------------------------------------------------------------
(* HashIndex: image_hashing.py *)

\* hash_size=16 gives 16*16 bit codes; compare_hashes divides by 256.0
max_distance == 256
HexLen == 64
HexDigits == 0..15

\* hex string with the first k of its 4*n bits set
HexOfPrefix(n, k) ==
    [i \in 1..n |->
        LET ones == Max(0, Min(4, k - 4 * (i - 1)))
        IN  CASE ones = 0 -> 0 [] ones = 1 -> 8 [] ones = 2 -> 12
              [] ones = 3 -> 14 [] OTHER -> 15]

\* images of the model: content id -> number of leading one bits of its
\* pHash; dHash and aHash are derived codes of the same image
PBitsOf(img) == CASE img = 1 -> 0 [] img = 2 -> 25 [] img = 3 -> 26
                  [] img = 4 -> 51 [] img = 5 -> 52 [] OTHER -> 256

NumImages == 5
Images == 1..NumImages

\* str(imagehash.phash(...)) and its siblings, one entry for each content
PHashes == [img \in Images |-> HexOfPrefix(HexLen, PBitsOf(img))]
DHashes == [img \in Images |-> HexOfPrefix(HexLen, (PBitsOf(img) + 64) % 257)]
AHashes == [img \in Images |-> HexOfPrefix(HexLen, (PBitsOf(img) + 128) % 257)]

phash(img) == PHashes[img]
dhash(img) == DHashes[img]
average_hash(img) == AHashes[img]

EmptyHashes == [ok |-> FALSE, pHash |-> <<>>, dHash |-> <<>>, aHash |-> <<>>]

\* compute_hashes: Image.open fails on an unreadable file and the
\* exception is re-raised (ok = FALSE)
compute_hashes(image_path) ==
    IF files[image_path] = Unreadable THEN EmptyHashes
    ELSE [ok |-> TRUE,
          pHash |-> phash(files[image_path]),
          dHash |-> dhash(files[image_path]),
          aHash |-> average_hash(files[image_path])]

\* the four bits of a hexadecimal digit, most significant first
Nibble ==
    << <<0,0,0,0>>, <<0,0,0,1>>, <<0,0,1,0>>, <<0,0,1,1>>,
       <<0,1,0,0>>, <<0,1,0,1>>, <<0,1,1,0>>, <<0,1,1,1>>,
       <<1,0,0,0>>, <<1,0,0,1>>, <<1,0,1,0>>, <<1,0,1,1>>,
       <<1,1,0,0>>, <<1,1,0,1>>, <<1,1,1,0>>, <<1,1,1,1>> >>

\* variant: the empty string is read as the hash with no bit set
hex_to_hash_lenient(hexstr) ==
    IF \E i \in DOMAIN hexstr : hexstr[i] \notin HexDigits
    THEN [ok |-> FALSE, hash |-> <<>>]
    ELSE IF hexstr = <<>>
    THEN [ok |-> TRUE, hash |-> [i \in 1..HexLen |-> Nibble[1]]]
    ELSE [ok |-> TRUE, hash |-> [i \in DOMAIN hexstr |-> Nibble[hexstr[i] + 1]]]

\* imagehash.hex_to_hash: int(hexstr, 16) fails on "" and on a non-hex
\* character (ok = FALSE); otherwise the bit array, one row of four bits
\* for each digit
hex_to_hash(hexstr) ==
    IF hexstr = <<>> \/ \E i \in DOMAIN hexstr : hexstr[i] \notin HexDigits
    THEN [ok |-> FALSE, hash |-> <<>>]
    ELSE [ok |-> TRUE, hash |-> [i \in DOMAIN hexstr |-> Nibble[hexstr[i] + 1]]]

\* ImageHash.__sub__: number of differing bits; shapes must agree,
\* a TypeError is reported as -1
HashSub(h1, h2) ==
    IF Len(h1) # Len(h2) THEN -1
    ELSE Cardinality({c \in (DOMAIN h1) \X (1..4) :
                         h1[c[1]][c[2]] # h2[c[1]][c[2]]})

\* variant: the distance itself is returned as the similarity
compare_hashes_distance(hash1, hash2) ==
    LET hash_obj1 == hex_to_hash(hash1)
        hash_obj2 == hex_to_hash(hash2)
    IN  IF ~hash_obj1.ok \/ ~hash_obj2.ok THEN 0
        ELSE LET distance == HashSub(hash_obj1.hash, hash_obj2.hash)
             IN  IF distance < 0 THEN 0
                 ELSE Max(0, Min(max_distance, distance))

\* compare_hashes: similarity 1.0 - distance/256.0 clamped to [0, 1],
\* returned here as 256 * similarity; every exception gives 0.0
compare_hashes(hash1, hash2) ==
    LET hash_obj1 == hex_to_hash(hash1)
        hash_obj2 == hex_to_hash(hash2)
    IN  IF ~hash_obj1.ok \/ ~hash_obj2.ok THEN 0
        ELSE LET distance == HashSub(hash_obj1.hash, hash_obj2.hash)
             IN  IF distance < 0 THEN 0
                 ELSE Max(0, Min(max_distance, max_distance - distance))

\* variant: a similarity equal to the threshold is not retained
AtLeastTenths_strict(sim256, tenths) == sim256 * 10 > tenths * max_distance
\* similarity >= threshold with the threshold in tenths
AtLeastTenths(sim256, tenths) == sim256 * 10 >= tenths * max_distance
\* similarity > threshold with the threshold in tenths
AboveTenths(sim256, tenths) == sim256 * 10 > tenths * max_distance

\* variant: a plain INSERT on a table without the UNIQUE constraint
InsertOrReplace_append(table, image_path, hashes) ==
    table \o
    << [filePath |-> image_path, pHash |-> hashes.pHash,
        dHash |-> hashes.dHash, aHash |-> hashes.aHash] >>

\* INSERT OR REPLACE on the UNIQUE column filePath: the old row, if any,
\* is deleted and the new row is appended with a fresh rowid
InsertOrReplace(table, image_path, hashes) ==
    LET others == {i \in DOMAIN table : table[i].filePath # image_path}
    IN  Select(table, others) \o
        << [filePath |-> image_path, pHash |-> hashes.pHash,
            dHash |-> hashes.dHash, aHash |-> hashes.aHash] >>

\* variant: the query without WHERE filePath != ?
find_similar_all_rows(table, image_path, threshold) ==
    LET query_hashes == compute_hashes(image_path)
        sim == [i \in DOMAIN table |->
                  compare_hashes(query_hashes.pHash, table[i].pHash)]
        hits == {i \in DOMAIN table :
                    table[i].pHash # <<>> /\ AtLeastTenths(sim[i], threshold)}
        matches == Select([i \in DOMAIN table |->
                              [filePath |-> table[i].filePath,
                               similarity |-> sim[i],
                               hash_type |-> "pHash"]], hits)
    IN  SortDesc(matches, [i \in DOMAIN matches |-> matches[i].similarity])

\* variant: rows of the query's own document are left out as well
find_similar_other_documents(table, image_path, threshold) ==
    LET query_hashes == compute_hashes(image_path)
        rows == Select(table, {i \in DOMAIN table :
                                  table[i].filePath[1] # image_path[1]})
        sim == [i \in DOMAIN rows |->
                  compare_hashes(query_hashes.pHash, rows[i].pHash)]
        hits == {i \in DOMAIN rows :
                    rows[i].pHash # <<>> /\ AtLeastTenths(sim[i], threshold)}
        matches == Select([i \in DOMAIN rows |->
                              [filePath |-> rows[i].filePath,
                               similarity |-> sim[i],
                               hash_type |-> "pHash"]], hits)
    IN  SortDesc(matches, [i \in DOMAIN matches |-> matches[i].similarity])

\* find_similar on a readable query image: rows of other paths with a
\* non-empty pHash whose similarity reaches the threshold, best first
find_similar(table, image_path, threshold) ==
    LET query_hashes == compute_hashes(image_path)
        rows == Select(table, {i \in DOMAIN table :
                                  table[i].filePath # image_path})
        sim == [i \in DOMAIN rows |->
                  compare_hashes(query_hashes.pHash, rows[i].pHash)]
        hits == {i \in DOMAIN rows :
                    rows[i].pHash # <<>> /\ AtLeastTenths(sim[i], threshold)}
        matches == Select([i \in DOMAIN rows |->
                              [filePath |-> rows[i].filePath,
                               similarity |-> sim[i],
                               hash_type |-> "pHash"]], hits)
    IN  SortDesc(matches, [i \in DOMAIN matches |-> matches[i].similarity])

----------------------------------------------------------------------------
(* FeatureComparator: opencv_compare.py *)

\* compare_images: match_percentage = (orb*0.4 + ssim*0.6)*100, in tenths
\* of a percent with orb and ssim in percent
match_percentage(orb_score, ssim_score) == orb_score * 4 + ssim_score * 6

NoMatch == [image |-> 0, score |-> 0, orbScore |-> 0, ssim |-> 0]

NoComparison ==
    [present |-> FALSE, hasBest |-> FALSE, bestMatch |-> NoMatch,
     bestScore |-> 0, matches |-> <<>>, totalCompared |-> 0]

\* variant: a score equal to the threshold is not a match
compare_with_directory_above(comparisons, threshold) ==
    LET score == [i \in DOMAIN comparisons |->
                    match_percentage(comparisons[i].orbScore,
                                     comparisons[i].ssim)]
        kept == {i \in DOMAIN comparisons :
                    comparisons[i].ok /\ score[i] > threshold * 10}
        matches == Select([i \in DOMAIN comparisons |->
                             [image |-> i, score |-> score[i],
                              orbScore |-> comparisons[i].orbScore,
                              ssim |-> comparisons[i].ssim]], kept)
        sorted == SortDesc(matches, [i \in DOMAIN matches |-> matches[i].score])
    IN  [present |-> TRUE,
         hasBest |-> sorted # <<>>,
         bestMatch |-> IF sorted # <<>> THEN sorted[1] ELSE NoMatch,
         bestScore |-> IF sorted # <<>> THEN sorted[1].score ELSE 0,
         matches |-> sorted,
         totalCompared |-> Len(comparisons)]

\* compare_with_directory; comparisons[i] is the outcome of compare_images
\* on the i-th image file of the directory (ok = FALSE: it raised);
\* threshold is in percent
compare_with_directory(comparisons, threshold) ==
    LET score == [i \in DOMAIN comparisons |->
                    match_percentage(comparisons[i].orbScore,
                                     comparisons[i].ssim)]
        kept == {i \in DOMAIN comparisons :
                    comparisons[i].ok /\ score[i] >= threshold * 10}
        matches == Select([i \in DOMAIN comparisons |->
                             [image |-> i, score |-> score[i],
                              orbScore |-> comparisons[i].orbScore,
                              ssim |-> comparisons[i].ssim]], kept)
        sorted == SortDesc(matches, [i \in DOMAIN matches |-> matches[i].score])
    IN  [present |-> TRUE,
         hasBest |-> sorted # <<>>,
         bestMatch |-> IF sorted # <<>> THEN sorted[1] ELSE NoMatch,
         bestScore |-> IF sorted # <<>> THEN sorted[1].score ELSE 0,
         matches |-> sorted,
         totalCompared |-> Len(comparisons)]

----------------------------------------------------------------------------
(* EvidenceAggregator: plagiarism_engine.py *)

\* variants of the increments
W_SSIM_low == 40 - 10
W_SEARCH_high == 30 + 10
W_ORB_negative == 0 - 20
W_HASH_high == 30 + 10
\* confidence increments, in hundredths
W_HASH == 30
W_SSIM == 40
W_ORB == 20
W_SEARCH == 30
\* decision thresholds, in hundredths
T_HEAVY == 70
T_PARTIAL == 40
\* thresholds of the signals
HASH_LOOKUP_TENTHS == 8     \* find_similar(..., threshold=0.8)
HASH_STRONG_TENTHS_low == 9 - 1 \* variant: the lookup threshold reused
HASH_STRONG_TENTHS == 9     \* similarity > 0.9
SSIM_PCT == 75              \* ssim_score > 0.75
COMPARE_THRESHOLD_PCT == 35 \* compare_with_directory(..., threshold=0.35)
SCORE_PCT == 35             \* best_score > 0.35

NoHashMatches == [present |-> FALSE, count |-> 0, matches |-> <<>>,
                  highestSimilarity |-> 0]

NoSearch == [state |-> "unset", similarImagesCount |-> 0,
             matchingPagesCount |-> 0, hasResults |-> FALSE]

\* the report dictionary _analyze_diagram starts from
NewReport(diagram_path, diagram_index) ==
    [diagram |-> diagram_path,
     index |-> diagram_index,
     localSimilarity |-> NoComparison,
     reverseImageSearch |-> NoSearch,
     hashMatches |-> NoHashMatches,
     decision |-> "original",
     confidence |-> 0,
     indicators |-> <<>>,
     error |-> FALSE]

\* variant: strict comparisons at the two thresholds
make_decision_strict(r) ==
    IF r.confidence > T_HEAVY THEN "heavily plagiarized"
    ELSE IF r.confidence > T_PARTIAL THEN "partially plagiarized"
    ELSE "original"

make_decision(r) ==
    IF r.confidence >= T_HEAVY THEN "heavily plagiarized"
    ELSE IF r.confidence >= T_PARTIAL THEN "partially plagiarized"
    ELSE "original"

\* variant: the except branch also raises the confidence
ErrorReport_penalised(r) ==
    [r EXCEPT !.error = TRUE, !.confidence = @ + W_HASH]

\* the except branch of _analyze_diagram, lines 216-218: the report gets
\* an 'error' entry and is returned as it stands
ErrorReport(r) == [r EXCEPT !.error = TRUE]

\* outcomes of the two database calls of step 2a
StoreOutcomes == {"stored", "returns_false", "connect_raises"}
FindOutcomes == {"rows", "connect_raises"}

\* step 2a, lines 140-158: hashes, store, lookup, +0.3 on a strong match.
\* An exception of compute_hashes or of a database connection leaves the
\* try block: the report gets an error and keeps decision and confidence.
HashStep ==
    /\ pc = "hash"
    /\ \E store \in StoreOutcomes, find \in FindOutcomes :
         LET hashes == compute_hashes(report.diagram)
             table == IF hashes.ok /\ store = "stored"
                      THEN InsertOrReplace(db, report.diagram, hashes)
                      ELSE db
             raised == ~hashes.ok \/ store = "connect_raises"
                         \/ find = "connect_raises"
             found == find_similar(table, report.diagram, HASH_LOOKUP_TENTHS)
             strong == found # <<>> /\
                       AboveTenths(found[1].similarity, HASH_STRONG_TENTHS)
         IN  /\ (~hashes.ok) => (store = "stored" /\ find = "rows")
             /\ (store = "connect_raises") => (find = "rows")
             /\ db' = table
             /\ IF raised
                THEN /\ report' = ErrorReport(report)
                     /\ similar_images' = similar_images
                     /\ pc' = "returned"
                ELSE /\ similar_images' = found
                     /\ report' =
                          [report EXCEPT
                             !.hashMatches =
                                IF found # <<>>
                                THEN [present |-> TRUE, count |-> Len(found),
                                      matches |-> Prefix(found, 5),
                                      highestSimilarity |-> found[1].similarity]
                                ELSE NoHashMatches,
                             !.indicators =
                                IF strong THEN Append(@, "Strong hash match detected")
                                ELSE @,
                             !.confidence = IF strong THEN @ + W_HASH ELSE @]
                     /\ pc' = "compare"
    /\ UNCHANGED <<writers, lock, files, env, diagram_reports, extracted_paths,
                   final_report, doc, last>>

\* outcomes of compare_images on one reference image
OrbValues == {0, 40}
SsimValues == {0, 70, 80}
CompareOutcomes ==
    {[ok |-> FALSE, orbScore |-> 0, ssim |-> 0]} \cup
    {[ok |-> TRUE, orbScore |-> o, ssim |-> s] : o \in OrbValues, s \in SsimValues}

\* outcomes of listing the reference directory in compare_with_directory
\* (line 201): the image files, or an exception of iterdir() when the path
\* that exists is not a directory or cannot be read
ListOutcomes == {"listed", "iterdir_raises"}

\* step 2b, lines 160-182: runs when a reference directory exists and
\* OpenCV is importable; +0.4 and +0.2 are read off bestMatch.  An
\* exception of compare_with_directory leaves the try block with the
\* confidence of step 2a.
CompareStep ==
    /\ pc = "compare"
    /\ IF env.reference_dir /\ env.comparator
       THEN \E listing \in ListOutcomes,
               comparisons \in [1..env.ref_files -> CompareOutcomes] :
              LET comparison == compare_with_directory(comparisons, COMPARE_THRESHOLD_PCT)
                  best_score == comparison.bestMatch.score
                  ssim_score == comparison.bestMatch.ssim
                  high_ssim == comparison.hasBest /\ ssim_score > SSIM_PCT
                  high_score == comparison.hasBest /\ best_score > SCORE_PCT * 10
                  ind1 == IF high_ssim
                          THEN Append(report.indicators, "High SSIM similarity")
                          ELSE report.indicators
                  ind2 == IF high_score
                          THEN Append(ind1, "ORB match percentage")
                          ELSE ind1
              IN  IF listing = "iterdir_raises"
                  THEN /\ report' = ErrorReport(report)
                       /\ pc' = "returned"
                  ELSE /\ report' = [report EXCEPT
                               !.localSimilarity = comparison,
                               !.indicators = ind2,
                               !.confidence = @ + (IF high_ssim THEN W_SSIM ELSE 0)
                                                + (IF high_score THEN W_ORB ELSE 0)]
                       /\ pc' = "search"
       ELSE /\ report' = report
            /\ pc' = "search"
    /\ UNCHANGED <<writers, lock, files, db, env, diagram_reports, extracted_paths,
                   final_report, doc, similar_images, last>>

\* outcomes of searcher.search_google: the driver set-up raises (outside
\* its try block), the search fails and an error dictionary without
\* similarImages is returned, or a result dictionary is returned
MaxSimilar == 2
SearchOutcomes ==
    {[kind |-> "setup_raises", similar |-> 0, pages |-> 0],
     [kind |-> "error_dict", similar |-> 0, pages |-> 0]} \cup
    {[kind |-> "results", similar |-> n, pages |-> m] :
        n \in 0..MaxSimilar, m \in 0..1}

\* step 2c, lines 184-211
SearchStep ==
    /\ pc = "search"
    /\ IF env.searcher
       THEN \E reverse_results \in SearchOutcomes :
              IF reverse_results.kind = "setup_raises"
              THEN report' = [report EXCEPT !.reverseImageSearch =
                                [NoSearch EXCEPT !.state = "error"]]
              ELSE LET hasResults == reverse_results.similar > 0
                   IN  report' =
                         [report EXCEPT
                            !.reverseImageSearch =
                               [state |-> "google",
                                similarImagesCount |-> reverse_results.similar,
                                matchingPagesCount |-> reverse_results.pages,
                                hasResults |-> hasResults],
                            !.indicators =
                               IF hasResults
                               THEN Append(@, "Visually similar images found on Google")
                               ELSE @,
                            !.confidence = IF hasResults THEN @ + W_SEARCH ELSE @]
       ELSE report' = [report EXCEPT !.reverseImageSearch =
                         [NoSearch EXCEPT !.state = "skipped"]]
    /\ pc' = "decide"
    /\ UNCHANGED <<writers, lock, files, db, env, diagram_reports, extracted_paths,
                   final_report, doc, similar_images, last>>

\* step 2d, line 214
DecideStep ==
    /\ pc = "decide"
    /\ report' = [report EXCEPT !.decision = make_decision(report)]
    /\ pc' = "returned"
    /\ UNCHANGED <<writers, lock, files, db, env, diagram_reports, extracted_paths,
                   final_report, doc, similar_images, last>>

----------------------------------------------------------------------------
(* One artifact analysis: _analyze_diagram on a corpus and an environment *)

\* artifact paths: <<document, page number, kind, region index>>
QueryPath == <<"doc", 2, "diagram", 1>>
CorpusPaths == {<<"corpus", 2, "diagram", 1>>, <<"corpus", 3, "diagram", 1>>}

\* hashes of a stored row: those of an image, or empty strings (kind 0)
StoredHashes(kind) ==
    IF kind = 0 THEN [pHash |-> <<>>, dHash |-> <<>>, aHash |-> <<>>]
    ELSE [pHash |-> phash(kind), dHash |-> dhash(kind),
          aHash |-> average_hash(kind)]

Row(path, kind) ==
    [filePath |-> path, pHash |-> StoredHashes(kind).pHash,
     dHash |-> StoredHashes(kind).dHash, aHash |-> StoredHashes(kind).aHash]

MaxRows == 2
CorpusKinds == {0, 1, 2, 3, 5}
\* tables with at most MaxRows rows, one row per path: corpus rows and
\* possibly a row left for the query path by an earlier run
Tables(paths, kinds) ==
    UNION {
      {t \in [1..n -> {Row(p, k) : p \in paths, k \in kinds}] :
          \A i, j \in 1..n : i # j => t[i].filePath # t[j].filePath}
      : n \in 0..MaxRows}

MaxRefFiles == 2
\* engine constructions: reference directory given and existing, number of
\* image files in it, OpenCV importable, Selenium importable
Environments ==
    {[reference_dir |-> rd, ref_files |-> n, comparator |-> c, searcher |-> se,
      pdf2image |-> FALSE] :
        rd \in BOOLEAN, n \in 0..MaxRefFiles, c \in BOOLEAN, se \in BOOLEAN}

NoFinalReport ==
    [returned |-> FALSE, error |-> FALSE, totalDiagrams |-> 0,
     diagrams |-> <<>>, hasSummary |-> FALSE,
     summary |-> [total |-> 0, original |-> 0, partiallyPlagiarized |-> 0,
                  heavilyPlagiarized |-> 0,
                  averageConfidence |-> [num |-> 0, den |-> 1],
                  riskLevel |-> "low"]]

NoDoc == [name |-> "none", pages |-> <<>>]
NoCall == [op |-> "none", hash1 |-> <<>>, hash2 |-> <<>>, hash3 |-> <<>>,
           path |-> <<>>, replaced |-> FALSE,
           threshold |-> 0, result |-> 0]

InitArtifact ==
    /\ writers = NoWriters
    /\ lock = NoLock
    /\ files \in [{QueryPath} -> {Unreadable, 1}]
    /\ db \in Tables(CorpusPaths, CorpusKinds) \cup
              {<<Row(QueryPath, 5)>> \o t : t \in Tables(CorpusPaths, {2})}
    /\ env \in {e \in Environments :
                  /\ (~e.reference_dir) => (e.ref_files = 0 /\ e.comparator)
                  /\ (~e.comparator) => e.ref_files = 1}
    /\ pc = "hash"
    /\ report = NewReport(QueryPath, 1)
    /\ diagram_reports = <<>>
    /\ extracted_paths = <<QueryPath>>
    /\ final_report = NoFinalReport
    /\ doc = NoDoc
    /\ similar_images = <<>>
    /\ last = NoCall

NextArtifact == HashStep \/ CompareStep \/ SearchStep \/ DecideStep

SpecArtifact == InitArtifact /\ [][NextArtifact]_vars

----------------------------------------------------------------------------
(* _make_decision on its own *)

MaxConfidence == 120

InitDecision ==
    /\ writers = NoWriters
    /\ lock = NoLock
    /\ report \in {[NewReport(QueryPath, 1) EXCEPT !.confidence = c,
                                                   !.indicators = ind] :
                     c \in 0..MaxConfidence,
                     ind \in {<<>>, <<"Strong hash match detected">>}}
    /\ pc = "decide"
    /\ files = [p \in {QueryPath} |-> 1]
    /\ db = <<>>
    /\ env \in {e \in Environments : ~e.reference_dir /\ e.ref_files = 0
                                       /\ e.comparator /\ ~e.searcher}
    /\ diagram_reports = <<>>
    /\ extracted_paths = <<QueryPath>>
    /\ final_report = NoFinalReport
    /\ doc = NoDoc
    /\ similar_images = <<>>
    /\ last = NoCall

SpecDecision == InitDecision /\ [][DecideStep]_vars

\* C1: the verdict follows from the confidence alone: heavily plagiarized
\* from 0.7 on (0.7 included), partially plagiarized from 0.4 (included) up
\* to 0.7 (excluded), original below 0.4
C1_VerdictByThreshold ==
    pc = "returned" =>
        /\ (report.confidence >= 70) => report.decision = "heavily plagiarized"
        /\ (report.confidence >= 40 /\ report.confidence < 70)
              => report.decision = "partially plagiarized"
        /\ (report.confidence < 40) => report.decision = "original"

C1_Witness ==
    /\ pc = "returned"
    /\ report.confidence = 70
    /\ report.decision = "heavily plagiarized"
    /\ report.indicators = <<>>

----------------------------------------------------------------------------
(* compare_hashes on its own *)

\* hash strings handed to compare_hashes: the pHash of every image, the
\* empty string, a string with a non-hex character, a 64-bit (8x8) code
HashPool ==
    {phash(i) : i \in Images} \cup
    {<<>>, [i \in 1..HexLen |-> IF i = 1 THEN 16 ELSE 0],
     HexOfPrefix(16, 3)}

\* a stored hash as compute_hashes writes it: 64 hexadecimal digits
ValidHash(h) == Len(h) = HexLen /\ \A i \in DOMAIN h : h[i] \in 0..15

InitCompare ==
    /\ writers = NoWriters
    /\ lock = NoLock
    /\ last \in {[NoCall EXCEPT !.op = "compare_hashes", !.hash1 = h1,
                                !.hash2 = h2, !.result = -1] :
                   h1 \in HashPool, h2 \in HashPool}
    /\ pc = "call"
    /\ files = [p \in {QueryPath} |-> 1]
    /\ db = <<>>
    /\ env \in {e \in Environments : ~e.reference_dir /\ e.ref_files = 0
                                       /\ e.comparator /\ ~e.searcher}
    /\ report = NewReport(QueryPath, 1)
    /\ diagram_reports = <<>>
    /\ extracted_paths = <<>>
    /\ final_report = NoFinalReport
    /\ doc = NoDoc
    /\ similar_images = <<>>

CompareHashes ==
    /\ pc = "call"
    /\ last.op = "compare_hashes"
    /\ last' = [last EXCEPT !.result = compare_hashes(last.hash1, last.hash2)]
    /\ pc' = "returned"
    /\ UNCHANGED <<writers, lock, files, db, env, report, diagram_reports, extracted_paths,
                   final_report, doc, similar_images>>

SpecCompare == InitCompare /\ [][CompareHashes]_vars

\* C9: comparing a valid hash string with itself gives similarity 1.0
\* (256 of 256 bits equal)
C9_SelfSimilarity ==
    (pc = "returned" /\ last.op = "compare_hashes"
        /\ ValidHash(last.hash1) /\ last.hash1 = last.hash2)
    => last.result = 256

C9_Witness ==
    /\ pc = "returned"
    /\ last.op = "compare_hashes"
    /\ last.hash1 = phash(3)
    /\ last.hash2 = phash(3)
    /\ last.result = 256

----------------------------------------------------------------------------
(* Claims about one artifact analysis, checked under SpecArtifact *)

\* the report saw a hash similarity above 0.9 in the corpus lookup
SawStrongHash(r) ==
    r.hashMatches.present /\ r.hashMatches.highestSimilarity * 10 > 9 * 256

\* C2: hash similarity > 0.9, a best reference match with structural
\* similarity > 0.75 and matchRatio > 0.35, and no external signal give
\* confidence 0.9 and the verdict heavily plagiarized
C2_AllLocalSignals ==
    (/\ pc = "returned"
     /\ ~report.error
     /\ SawStrongHash(report)
     /\ report.localSimilarity.hasBest
     /\ report.localSimilarity.bestMatch.ssim > 75
     /\ report.localSimilarity.bestMatch.orbScore > 35
     /\ report.reverseImageSearch.similarImagesCount = 0)
    => /\ report.confidence = 90
       /\ report.decision = "heavily plagiarized"

C2_Witness ==
    /\ pc = "returned"
    /\ ~report.error
    /\ report.hashMatches.highestSimilarity = 231
    /\ report.localSimilarity.bestMatch.ssim = 80
    /\ report.localSimilarity.bestMatch.orbScore = 40
    /\ report.reverseImageSearch.state = "skipped"
    /\ report.confidence = 90
    /\ report.decision = "heavily plagiarized"

\* C3 as stated: the feature-comparison step adds 0.4 exactly when the best
\* reference match has structural similarity > 0.75 and adds 0.2 exactly
\* when the best reference match has matchRatio > 0.35
C3_FeatureIncrements ==
    [][(pc = "compare" /\ pc' = "search" /\ report'.localSimilarity.present)
       => LET best == report'.localSimilarity.bestMatch
              hasBest == report'.localSimilarity.hasBest
          IN  report'.confidence = report.confidence
                + (IF hasBest /\ best.ssim > 75 THEN 40 ELSE 0)
                + (IF hasBest /\ best.orbScore > 35 THEN 20 ELSE 0)]_vars

C5_SearchIncrement ==
    [][(pc = "search")
       => /\ pc' = "decide"
          /\ report'.confidence = report.confidence
               + (IF report'.reverseImageSearch.state = "google"
                     /\ report'.reverseImageSearch.similarImagesCount >= 1
                  THEN 30 ELSE 0)
          /\ (report'.reverseImageSearch.state \in {"error", "skipped"}
                => report'.confidence = report.confidence)]_vars

C5_Witness ==
    /\ pc = "returned"
    /\ report.reverseImageSearch.state = "error"
    /\ report.localSimilarity.hasBest
    /\ report.confidence = 60
    /\ report.decision = "partially plagiarized"

\* the three verdicts of _make_decision
Decisions == {"original", "partially plagiarized", "heavily plagiarized"}

\* positions of _analyze_diagram
Positions == {"hash", "compare", "search", "decide", "returned"}

\* C20: _analyze_diagram never fails.  Whatever signals are present,
\* absent or failing, every step leads from one position to the next or,
\* on an exception, straight to the return with an error entry, so the
\* call returns a report after at most four steps, always with one of the
\* three verdicts; and a signal that is absent or failed adds 0 to confidence: a
\* failed hash computation or database connection, a lookup without
\* matches, a missing reference directory or comparator, a directory that
\* cannot be listed or in which no comparison gave a match, a missing
\* searcher, a search that raised or returned no similar images
C20_NeverFailsAbsentAddsZero ==
    /\ [](/\ pc \in Positions
          /\ report.decision \in Decisions
          /\ report.error => pc = "returned")
    /\ [][ /\ (pc = "hash" /\ (report'.error \/ ~report'.hashMatches.present))
                => report'.confidence = report.confidence
           /\ (pc = "hash")
                => (pc' = "compare" \/ (pc' = "returned" /\ report'.error))
           /\ (pc = "compare" /\ (\/ ~env.reference_dir
                                    \/ ~env.comparator
                                    \/ ~report'.localSimilarity.hasBest))
                => report'.confidence = report.confidence
           /\ (pc = "compare")
                => (pc' = "search" \/ (pc' = "returned" /\ report'.error))
           /\ report'.error => report'.confidence = report.confidence
           /\ (pc = "search" /\ (\/ ~env.searcher
                                   \/ report'.reverseImageSearch.state = "error"
                                   \/ ~report'.reverseImageSearch.hasResults))
                => report'.confidence = report.confidence
           /\ (pc = "search") => pc' = "decide"
           /\ (pc = "decide")
                => (pc' = "returned" /\ report'.confidence = report.confidence)
         ]_vars

\* the picture could not be hashed while a reference directory with an
\* image and a searcher were at hand: the report is returned with an error
\* entry and confidence 0
C20_Witness ==
    /\ pc = "returned"
    /\ files[QueryPath] = Unreadable
    /\ report.error
    /\ report.confidence = 0
    /\ report.decision = "original"
    /\ env.reference_dir /\ env.comparator /\ env.ref_files > 0
    /\ env.searcher

----------------------------------------------------------------------------
(* _generate_summary *)

Count(reports, decision) ==
    Cardinality({i \in DOMAIN reports : reports[i].decision = decision})

\* variant: half of the reports being partial already counts as high
risk_level_at_half(total, partial, heavy) ==
    IF heavy > 0 \/ (2 * partial >= total /\ partial > 0) THEN "high"
    ELSE IF partial > 0 THEN "medium"
    ELSE "low"

\* lines 258-262; partial > total * 0.5 is 2 * partial > total
risk_level(total, partial, heavy) ==
    IF heavy > 0 \/ 2 * partial > total THEN "high"
    ELSE IF partial > 0 THEN "medium"
    ELSE "low"

RECURSIVE SumConfidence(_, _)
SumConfidence(reports, i) ==
    IF i > Len(reports) THEN 0
    ELSE reports[i].confidence + SumConfidence(reports, i + 1)

\* averageConfidence is kept as the fraction num/den
generate_summary(reports) ==
    LET total == Len(reports)
        original == Count(reports, "original")
        partial == Count(reports, "partially plagiarized")
        heavy == Count(reports, "heavily plagiarized")
    IN  [total |-> total,
         original |-> original,
         partiallyPlagiarized |-> partial,
         heavilyPlagiarized |-> heavy,
         averageConfidence |->
            IF total > 0 THEN [num |-> SumConfidence(reports, 1), den |-> total]
            ELSE [num |-> 0, den |-> 1],
         riskLevel |-> risk_level(total, partial, heavy)]

MaxReports == 4

\* a finished report with the given verdict
ReportWith(decision) ==
    [NewReport(QueryPath, 1) EXCEPT
        !.decision = decision,
        !.confidence = CASE decision = "heavily plagiarized" -> 90
                         [] decision = "partially plagiarized" -> 50
                         [] OTHER -> 0]


InitSummary ==
    /\ writers = NoWriters
    /\ lock = NoLock
    /\ diagram_reports \in
          UNION {[1..n -> {ReportWith(d) : d \in Decisions}] : n \in 0..MaxReports}
    /\ pc = "call"
    /\ files = [p \in {QueryPath} |-> 1]
    /\ db = <<>>
    /\ env \in {e \in Environments : ~e.reference_dir /\ e.ref_files = 0
                                       /\ e.comparator /\ ~e.searcher}
    /\ report = NewReport(QueryPath, 1)
    /\ extracted_paths = <<>>
    /\ final_report = NoFinalReport
    /\ doc = NoDoc
    /\ similar_images = <<>>
    /\ last = [NoCall EXCEPT !.op = "generate_summary"]

GenerateSummary ==
    /\ pc = "call"
    /\ last.op = "generate_summary"
    /\ final_report' = [NoFinalReport EXCEPT
                          !.hasSummary = TRUE,
                          !.summary = generate_summary(diagram_reports)]
    /\ pc' = "returned"
    /\ UNCHANGED <<writers, lock, files, db, env, report, diagram_reports, extracted_paths,
                   doc, similar_images, last>>

SpecSummary == InitSummary /\ [][GenerateSummary]_vars

\* C6: riskLevel is high when a report is heavily plagiarized or more than
\* half of the reports are partially plagiarized, medium when neither holds
\* and a report is partially plagiarized, low otherwise (empty list too)
C6_RiskLevel ==
    (pc = "returned" /\ final_report.hasSummary) =>
        LET n == Len(diagram_reports)
            heavy == {i \in 1..n :
                        diagram_reports[i].decision = "heavily plagiarized"}
            partial == {i \in 1..n :
                          diagram_reports[i].decision = "partially plagiarized"}
            high == heavy # {} \/ 2 * Cardinality(partial) > n
            risk == final_report.summary.riskLevel
        IN  /\ high => risk = "high"
            /\ (~high /\ partial # {}) => risk = "medium"
            /\ (~high /\ partial = {}) => risk = "low"

C6_Witness ==
    /\ pc = "returned"
    /\ final_report.hasSummary
    /\ Len(diagram_reports) = 4
    /\ final_report.summary.partiallyPlagiarized = 2
    /\ final_report.summary.heavilyPlagiarized = 0
    /\ final_report.summary.riskLevel = "medium"

----------------------------------------------------------------------------
(* The hash index on its own: store_hashes and find_similar in any order *)

HashPaths == {QueryPath} \cup CorpusPaths
\* contents of the image files: pHash distance 25 bits
FileKinds == {1, 2}
\* thresholds handed to find_similar, in tenths
Thresholds == {0, 9, 10}

InitHash ==
    /\ writers = NoWriters
    /\ lock = NoLock
    /\ files \in [HashPaths -> FileKinds]
    /\ db = <<>>
    /\ similar_images = <<>>
    /\ last = NoCall
    /\ pc = "idle"
    /\ env \in {e \in Environments : ~e.reference_dir /\ e.ref_files = 0
                                       /\ e.comparator /\ ~e.searcher}
    /\ report = NewReport(QueryPath, 1)
    /\ diagram_reports = <<>>
    /\ extracted_paths = <<>>
    /\ final_report = NoFinalReport
    /\ doc = NoDoc

\* store_hashes(image_path, hashes) with the hashes of the file or with a
\* dictionary that lacks the keys (hashes.get(..., '') stores ''); when the
\* statement fails the table is rolled back and False is returned (result
\* 0), otherwise True (result 1)
StoreHashes ==
    /\ pc = "idle"
    /\ \E image_path \in HashPaths, computed \in BOOLEAN, outcome \in StoreOutcomes :
         LET hashes == IF computed THEN compute_hashes(image_path)
                       ELSE EmptyHashes
         IN  /\ outcome # "connect_raises"
             /\ db' = IF outcome = "stored"
                      THEN InsertOrReplace(db, image_path, hashes)
                      ELSE db
             /\ last' = [NoCall EXCEPT
                           !.op = "store_hashes", !.path = image_path,
                           !.hash1 = hashes.pHash, !.hash2 = hashes.dHash,
                           !.hash3 = hashes.aHash,
                           !.replaced = /\ outcome = "stored"
                                        /\ \E i \in DOMAIN db :
                                              db[i].filePath = image_path,
                           !.result = IF outcome = "stored" THEN 1 ELSE 0]
    /\ similar_images' = <<>>
    /\ UNCHANGED <<writers, lock, files, pc, env, report, diagram_reports, extracted_paths,
                   final_report, doc>>

\* find_similar(image_path, threshold)
FindSimilar ==
    /\ pc = "idle"
    /\ \E image_path \in HashPaths, threshold \in Thresholds :
         /\ compute_hashes(image_path).ok
         /\ similar_images' = find_similar(db, image_path, threshold)
         /\ last' = [NoCall EXCEPT !.op = "find_similar", !.path = image_path,
                                   !.threshold = threshold]
    /\ UNCHANGED <<writers, lock, files, db, pc, env, report, diagram_reports,
                   extracted_paths, final_report, doc>>

NextHash == StoreHashes \/ FindSimilar

SpecHash == InitHash /\ [][NextHash]_vars

\* C10: the result of find_similar never holds a match whose path is the
\* path of the query, whatever the table holds and whatever the threshold
C10_NoSelfMatch ==
    (last.op = "find_similar") =>
        \A i \in DOMAIN similar_images :
            similar_images[i].filePath # last.path

C10_Witness ==
    /\ last.op = "find_similar"
    /\ last.threshold = 10
    /\ \E i \in DOMAIN db :
          /\ db[i].filePath = last.path
          /\ db[i].pHash = phash(files[last.path])
    /\ similar_images # <<>>

\* the row stored for a path
RowOf(path) == db[CHOOSE i \in DOMAIN db : db[i].filePath = path]

\* rows of other paths that carry a pHash whose similarity to the pHash of
\* the query file reaches the threshold
ExpectedMatches(path, threshold) ==
    {i \in DOMAIN db :
        /\ db[i].filePath # path
        /\ db[i].pHash # <<>>
        /\ compare_hashes(phash(files[path]), db[i].pHash) * 10
              >= threshold * max_distance}

\* C11: find_similar returns exactly the stored records of other paths
\* whose pHash similarity to the query's pHash is >= threshold, a record
\* at exactly the threshold included, each once and with its similarity,
\* ordered by non-increasing similarity
C11_ExactlyTheMatchesRanked ==
    (last.op = "find_similar") =>
        /\ {similar_images[k].filePath : k \in DOMAIN similar_images}
              = {db[i].filePath : i \in ExpectedMatches(last.path, last.threshold)}
        /\ Len(similar_images)
              = Cardinality(ExpectedMatches(last.path, last.threshold))
        /\ \A k \in DOMAIN similar_images :
              similar_images[k].similarity =
                 compare_hashes(phash(files[last.path]),
                                RowOf(similar_images[k].filePath).pHash)
        /\ \A k, l \in DOMAIN similar_images :
              k < l => similar_images[k].similarity >= similar_images[l].similarity

\* a lookup at threshold 1.0 that returns an identical picture stored under
\* another path and leaves out a stored near copy (231/256) and the
\* query's own row
C11_Witness ==
    /\ last.op = "find_similar"
    /\ last.threshold = 10
    /\ Len(db) = 3
    /\ Len(similar_images) = 1
    /\ similar_images[1].similarity = max_distance
    /\ \E i \in DOMAIN db :
          /\ db[i].filePath # last.path
          /\ compare_hashes(phash(files[last.path]), db[i].pHash) = 231

\* the row a successful store_hashes call writes
StoredRow ==
    [filePath |-> last.path, pHash |-> last.hash1, dHash |-> last.hash2,
     aHash |-> last.hash3]

\* C14: the hash store holds at most one record per path at all times; a
\* store that succeeds leaves for its path the record with the pHash,
\* dHash and aHash it was given, whether or not the path had a record, a
\* store that fails leaves the table as it was, and the records of the
\* other paths are the same before and after
C14_UpsertOnePerPath ==
    /\ [](\A i, j \in DOMAIN db : i # j => db[i].filePath # db[j].filePath)
    /\ [][ (last'.op = "store_hashes") =>
             /\ (last'.result = 1) =>
                   Cardinality({i \in DOMAIN db' : db'[i] = StoredRow'}) = 1
             /\ (last'.result = 0) => db' = db
             /\ {db[i] : i \in {k \in DOMAIN db : db[k].filePath # last'.path}}
                  = {db'[i] : i \in {k \in DOMAIN db' : db'[k].filePath # last'.path}}
          ]_vars

\* a successful store for a path that already had a record, in a table of
\* three paths: the path's record now carries the empty strings just given
C14_Witness ==
    /\ last.op = "store_hashes"
    /\ last.result = 1
    /\ last.replaced
    /\ last.hash1 = <<>>
    /\ Len(db) = 3
    /\ RowOf(last.path) = StoredRow

----------------------------------------------------------------------------
(* The hash index with direct comparisons: store_hashes, find_similar and
   compare_hashes in any order *)

\* thresholds a score is tested against, in tenths: 0.0, 0.1, ..., 1.0
AllThresholds == 0..10

\* compare_hashes(hash1, hash2) on hashes of the files or the empty string
CompareHashCall ==
    /\ pc = "idle"
    /\ \E hash1, hash2 \in {<<>>} \cup {phash(k) : k \in FileKinds} :
         last' = [NoCall EXCEPT !.op = "compare_hashes",
                                !.hash1 = hash1, !.hash2 = hash2,
                                !.result = compare_hashes(hash1, hash2)]
    /\ UNCHANGED <<writers, lock, files, db, pc, env, report, diagram_reports,
                   extracted_paths, final_report, doc, similar_images>>

NextIndex == StoreHashes \/ FindSimilar \/ CompareHashCall

SpecIndex == InitHash /\ [][NextIndex]_vars

\* C13 as stated: for every threshold in [0, 1] a stored record whose
\* pHash is empty is never returned by find_similar, and comparing an empty
\* hash with any hash never yields a score that passes the threshold
C13_EmptyNeverMatches ==
    /\ \A k \in DOMAIN similar_images :
          RowOf(similar_images[k].filePath).pHash # <<>>
    /\ (last.op = "compare_hashes" /\ (last.hash1 = <<>> \/ last.hash2 = <<>>)) =>
          \A t \in AllThresholds : ~AtLeastTenths(last.result, t)

\* C13 amended: a stored record whose pHash is empty is never returned by
\* find_similar at any threshold in [0, 1]; comparing an empty hash with
\* any hash yields 0.0, which passes no threshold greater than 0
C13_EmptyNeverMatchesAboveZero ==
    /\ \A k \in DOMAIN similar_images :
          RowOf(similar_images[k].filePath).pHash # <<>>
    /\ (last.op = "compare_hashes" /\ (last.hash1 = <<>> \/ last.hash2 = <<>>)) =>
          /\ last.result = 0
          /\ \A t \in AllThresholds \ {0} : ~AtLeastTenths(last.result, t)

\* a lookup returned one of three stored rows while another path's row had
\* an empty pHash, and then the empty hash was compared with a real one
C13_Witness ==
    /\ last.op = "compare_hashes"
    /\ last.hash1 = <<>> /\ last.hash2 # <<>>
    /\ last.result = 0
    /\ Len(db) = 3
    /\ Len(similar_images) = 1
    /\ Cardinality({i \in DOMAIN db : db[i].pHash = <<>>}) = 1

----------------------------------------------------------------------------
(* Concurrent store_hashes calls, each on a connection of its own.  SQLite
   gives the write lock of the database file to one connection at a time:
   the INSERT OR REPLACE statement takes it, commit or rollback releases it,
   and a statement that cannot get it within the connection's timeout
   (5 seconds by default) raises "database is locked". *)

Writers == {"w1", "w2", "w3"}
SharedPath == QueryPath
OtherPath == <<"corpus", 2, "diagram", 1>>

\* w1 and w2 store different hashes for the same path, w3 for another path
WriterPath(w) == IF w = "w3" THEN OtherPath ELSE SharedPath
WriterKind(w) == CASE w = "w1" -> 1 [] w = "w2" -> 2 [] OTHER -> 3
WriterRow(w) == Row(WriterPath(w), WriterKind(w))

\* rows left by earlier runs
EarlierKind == 5

\* variant: the statement does not wait for the write lock
LockAvailable_always(w) == w \in Writers
\* the write lock can be taken when no connection holds it
LockAvailable(w) == lock = NoLock

InitConcurrent ==
    /\ writers = [w \in Writers |->
                    [pc |-> "connect", pending |-> <<>>, result |-> "none"]]
    /\ lock = NoLock
    /\ db \in Tables({SharedPath, OtherPath}, {EarlierKind})
    /\ files = [p \in {SharedPath, OtherPath} |-> 1]
    /\ pc = "concurrent"
    /\ env \in {e \in Environments : ~e.reference_dir /\ e.ref_files = 0
                                       /\ e.comparator /\ ~e.searcher}
    /\ report = NewReport(QueryPath, 1)
    /\ diagram_reports = <<>>
    /\ extracted_paths = <<>>
    /\ final_report = NoFinalReport
    /\ doc = NoDoc
    /\ similar_images = <<>>
    /\ last = NoCall

\* lines 112-113: connect and cursor
WriterConnect ==
    /\ pc = "concurrent"
    /\ \E w \in Writers :
         /\ writers[w].pc = "connect"
         /\ writers' = [writers EXCEPT ![w].pc = "execute"]
    /\ UNCHANGED <<files, db, env, pc, report, diagram_reports,
                   extracted_paths, final_report, doc, similar_images, last,
                   lock>>

\* lines 115-127: the statement takes the write lock and replaces or
\* inserts the row in the connection's own copy of the table
WriterExecute ==
    /\ pc = "concurrent"
    /\ \E w \in Writers :
         /\ writers[w].pc = "execute"
         /\ LockAvailable(w)
         /\ lock' = w
         /\ writers' = [writers EXCEPT
                          ![w].pc = "commit",
                          ![w].pending =
                             InsertOrReplace(db, WriterPath(w),
                                             StoredHashes(WriterKind(w)))]
    /\ UNCHANGED <<files, db, env, pc, report, diagram_reports,
                   extracted_paths, final_report, doc, similar_images, last>>

\* lines 132-137: the statement gives up waiting for the lock another
\* connection holds; rollback, close, return False
WriterBusyTimeout ==
    /\ pc = "concurrent"
    /\ \E w \in Writers :
         /\ writers[w].pc = "execute"
         /\ ~LockAvailable(w)
         /\ writers' = [writers EXCEPT ![w].pc = "done", ![w].result = "False"]
    /\ UNCHANGED <<files, db, env, pc, report, diagram_reports,
                   extracted_paths, final_report, doc, similar_images, last,
                   lock>>

\* lines 129-131 and 136-137: commit publishes the connection's copy and
\* releases the lock; close, return True
WriterCommit ==
    /\ pc = "concurrent"
    /\ \E w \in Writers :
         /\ writers[w].pc = "commit"
         /\ db' = writers[w].pending
         /\ lock' = NoLock
         /\ writers' = [writers EXCEPT ![w].pc = "done", ![w].result = "True",
                                       ![w].pending = <<>>]
    /\ UNCHANGED <<files, env, pc, report, diagram_reports,
                   extracted_paths, final_report, doc, similar_images, last>>

NextConcurrent ==
    \/ WriterConnect
    \/ WriterExecute
    \/ WriterBusyTimeout
    \/ WriterCommit

SpecConcurrent == InitConcurrent /\ [][NextConcurrent]_vars

AllDone == \A w \in Writers : writers[w].pc = "done"
Succeeded(path) ==
    {w \in Writers : WriterPath(w) = path /\ writers[w].result = "True"}
RowsOf(path) == {i \in DOMAIN db : db[i].filePath = path}

----------------------------------------------------------------------------
(* Hash computation on its own: compute_hashes of image_hashing.py and
   _compute_perceptual_hash of extract_diagrams.py *)

\* DiagramExtractor._compute_perceptual_hash: the pHash of the picture, the
\* empty string when the bytes cannot be opened or hashed
compute_perceptual_hash(image_bytes) ==
    IF image_bytes = Unreadable THEN <<>> ELSE phash(image_bytes)

InitCompute ==
    /\ writers = NoWriters
    /\ lock = NoLock
    /\ files \in [HashPaths -> {Unreadable} \cup Images]
    /\ db = <<>>
    /\ similar_images = <<>>
    /\ last = NoCall
    /\ pc = "idle"
    /\ env \in {e \in Environments : ~e.reference_dir /\ e.ref_files = 0
                                       /\ e.comparator /\ ~e.searcher}
    /\ report = NewReport(QueryPath, 1)
    /\ diagram_reports = <<>>
    /\ extracted_paths = <<>>
    /\ final_report = NoFinalReport
    /\ doc = NoDoc

\* compute_hashes(image_path): the dictionary is returned, or the exception
\* of Image.open is logged and raised again (line 99)
ComputeHashes ==
    /\ pc = "idle"
    /\ \E image_path \in HashPaths :
         LET hashes == compute_hashes(image_path)
         IN  /\ last' = [NoCall EXCEPT !.op = "compute_hashes",
                                       !.path = image_path,
                                       !.hash1 = hashes.pHash,
                                       !.hash2 = hashes.dHash,
                                       !.hash3 = hashes.aHash]
             /\ pc' = IF hashes.ok THEN "returned" ELSE "raised"
    /\ UNCHANGED <<writers, lock, files, db, env, report, diagram_reports, extracted_paths,
                   final_report, doc, similar_images>>

\* _compute_perceptual_hash(image_bytes) on the bytes of a file
ComputePerceptualHash ==
    /\ pc = "idle"
    /\ \E image_path \in HashPaths :
         /\ last' = [NoCall EXCEPT !.op = "_compute_perceptual_hash",
                                   !.path = image_path,
                                   !.hash1 = compute_perceptual_hash(files[image_path])]
         /\ pc' = "returned"
    /\ UNCHANGED <<writers, lock, files, db, env, report, diagram_reports, extracted_paths,
                   final_report, doc, similar_images>>

NextCompute == ComputeHashes \/ ComputePerceptualHash

SpecCompute == InitCompute /\ [][NextCompute]_vars

\* C12: compute_hashes on a corrupt or unreadable artifact returns empty
\* hash strings to its caller and does not raise
C12_EmptyHashesOnCorrupt ==
    (last.op = "compute_hashes" /\ files[last.path] = Unreadable) =>
        /\ pc = "returned"
        /\ last.hash1 = <<>> /\ last.hash2 = <<>> /\ last.hash3 = <<>>

----------------------------------------------------------------------------
(* RegionExtractor: pdf_extractor.py *)

\* coordinates are integers in steps of 1/Unit of a page unit
Unit == 2

RectWidth(r) == Max(0, r.x1 - r.x0)
RectHeight(r) == Max(0, r.y1 - r.y0)
RectArea(r) == RectWidth(r) * RectHeight(r)

\* geometric thresholds of _extract_embedded_images
MIN_SIDE == 100           \* width < 100 or height < 100
MIN_PIXELS == 150         \* width >= 150 and height >= 150 of the PNG
AREA_PCT == 60            \* image_area > page_area * 0.6
SIDE_PCT == 75            \* width > page width * 0.75
MARGIN_PCT == 5           \* margin_threshold = 0.05
SKIP_W_other == 260 + 2   \* variant: another width is skipped
SKIP_W == 260             \* int(width) == 260 and int(height) == 128
SKIP_H == 128
RENDER_SCALE == 2         \* fitz.Matrix(2.0, 2.0)
FALLBACK_DPI == 200       \* convert_from_path(..., dpi=200)
POINTS_PER_INCH == 72

\* a page whose top lines carry a references keyword in a header-like line
\* (lines 84-97): the keyword occurs in the first 5 lines, and one of the
\* first 10 lines holds it and is short or contains a digit
IsReferencesPage(page) ==
    \E k \in UNION {page.lines[i].keywords : i \in DOMAIN page.lines} :
        /\ \E i \in DOMAIN page.lines : i <= 5 /\ k \in page.lines[i].keywords
        /\ \E j \in DOMAIN page.lines :
              j <= 10 /\ k \in page.lines[j].keywords /\ page.lines[j].header

\* _find_references_page: 0-based index of the first such page from the
\* second page on, -1 when there is none
find_references_page(d) ==
    LET hits == {n \in 1..(Len(d.pages) - 1) : IsReferencesPage(d.pages[n + 1])}
    IN  IF hits = {} THEN -1
        ELSE CHOOSE n \in hits : \A m \in hits : n <= m

\* the filters of lines 199-237 on one placement rectangle, in the order
\* of the code
TooLargeArea(page, r) ==
    RectArea(r) * 100 > page.width * page.height * AREA_PCT
SpansPage(page, r) ==
    \/ RectWidth(r) * 100 > page.width * SIDE_PCT
    \/ RectHeight(r) * 100 > page.height * SIDE_PCT
TooSmall(r) ==
    RectWidth(r) < MIN_SIDE * Unit \/ RectHeight(r) < MIN_SIDE * Unit
\* int(width) == 260 and int(height) == 128, or the other way round
ExactSkip(r) ==
    \/ (RectWidth(r) \div Unit = SKIP_W /\ RectHeight(r) \div Unit = SKIP_H)
    \/ (RectWidth(r) \div Unit = SKIP_H /\ RectHeight(r) \div Unit = SKIP_W)
EdgeToEdge(page, r) ==
    /\ r.x0 * 100 < page.width * MARGIN_PCT
    /\ r.y0 * 100 < page.height * MARGIN_PCT
    /\ r.x1 * 100 > page.width * (100 - MARGIN_PCT)
    /\ r.y1 * 100 > page.height * (100 - MARGIN_PCT)

PassesFilters(page, r) ==
    /\ ~TooLargeArea(page, r)
    /\ ~SpansPage(page, r)
    /\ ~TooSmall(r)
    /\ ~ExactSkip(r)
    /\ ~EdgeToEdge(page, r)

\* _extract_region: the region clamped to the page (lines 607-612)
ClampToPage(page, r) ==
    [x0 |-> Max(0, Min(r.x0, page.width)),
     y0 |-> Max(0, Min(r.y0, page.height)),
     x1 |-> Max(r.x0, Min(r.x1, page.width)),
     y1 |-> Max(r.y0, Min(r.y1, page.height))]

\* _extract_region returns a path: the clamped region is at least 100 wide
\* and high, rendering succeeds and the PNG is at least 150 x 150 pixels
RegionSaved(page, img, r) ==
    LET region == ClampToPage(page, r)
    IN  /\ ~(RectWidth(region) < MIN_SIDE * Unit
               \/ RectHeight(region) < MIN_SIDE * Unit)
        /\ img.render_ok
        /\ (RENDER_SCALE * RectWidth(region)) \div Unit >= MIN_PIXELS
        /\ (RENDER_SCALE * RectHeight(region)) \div Unit >= MIN_PIXELS

\* file name of _extract_region: "<page+1>-diagram-<region_idx+1>.png"
\* with region_idx = img_idx * 100 + rect_idx (all three 0-based)
DiagramPath(d, page_num, img_idx, rect_idx) ==
    <<d.name, page_num + 1, "diagram", img_idx * 100 + rect_idx + 1>>

\* file name of the pdf2image fallback: "<page+1>-rendered.png"
RenderedPath(d, page_num) == <<d.name, page_num + 1, "rendered", 0>>

\* pages (0-based) that the loop of _extract_embedded_images processes:
\* from the second page up to the references page, and not beyond the
\* first page whose access raises, which ends the whole loop (line 254)
ScannedPages(d, stop_at_page) ==
    LET last_page == IF stop_at_page >= 0 THEN Min(stop_at_page, Len(d.pages))
                     ELSE Len(d.pages)
        range == 1..(last_page - 1)
        broken == {n \in range : ~d.pages[n + 1].readable}
    IN  {n \in range : \A b \in broken : n < b}

\* placements <<page_num, img_idx, rect_idx>> (0-based) that become files
SavedPlacements(d, stop_at_page) ==
    {c \in UNION {
              UNION {{<<n, i - 1, k - 1>> :
                        k \in DOMAIN d.pages[n + 1].images[i].rects}
                     : i \in DOMAIN d.pages[n + 1].images}
              : n \in ScannedPages(d, stop_at_page)} :
        LET page == d.pages[c[1] + 1]
            img == page.images[c[2] + 1]
            r == img.rects[c[3] + 1]
        IN  /\ img.extract_ok
            /\ img.ext \in {"jpg", "jpeg", "png"}
            /\ img.rects_ok
            /\ PassesFilters(page, r)
            /\ RegionSaved(page, img, r)}

\* loop order of _extract_embedded_images: page, image, rectangle
Before(c1, c2) ==
    \/ c1[1] < c2[1]
    \/ c1[1] = c2[1] /\ c1[2] < c2[2]
    \/ c1[1] = c2[1] /\ c1[2] = c2[2] /\ c1[3] < c2[3]

\* _extract_embedded_images: the saved paths in loop order
extract_embedded_images(d, stop_at_page) ==
    LET saved == SavedPlacements(d, stop_at_page)
    IN  [k \in 1..Cardinality(saved) |->
           LET c == CHOOSE x \in saved :
                       Cardinality({y \in saved : Before(y, x)}) = k - 1
           IN  DiagramPath(d, c[1], c[2], c[3])]

\* _extract_with_pdf2image: every page rendered at 200 dpi that is at
\* least 150 x 150 pixels, first page and references pages included
extract_with_pdf2image(d, converts) ==
    LET big == {n \in 0..(Len(d.pages) - 1) :
                  /\ converts
                  /\ (d.pages[n + 1].width * FALLBACK_DPI)
                        \div (POINTS_PER_INCH * Unit) >= MIN_PIXELS
                  /\ (d.pages[n + 1].height * FALLBACK_DPI)
                        \div (POINTS_PER_INCH * Unit) >= MIN_PIXELS}
    IN  [k \in 1..Cardinality(big) |->
           RenderedPath(d, CHOOSE n \in big :
                              Cardinality({m \in big : m < n}) = k - 1)]

\* the list extract_diagrams builds before list(set(...)), lines 119-128
ExtractedList(d, pdf2image, converts) ==
    LET embedded == extract_embedded_images(d, find_references_page(d))
    IN  IF pdf2image /\ Len(embedded) = 0
        THEN extract_with_pdf2image(d, converts)
        ELSE embedded

\* list(set(extracted_paths)), line 131: the distinct paths in the order
\* of a set of strings, which is any order
SetOrders(paths) ==
    {seq \in [1..Cardinality(Range(paths)) -> Range(paths)] :
        \A i, j \in DOMAIN seq : i # j => seq[i] # seq[j]}

\* content of the PNG written for a path
WrittenContent(d, path) ==
    IF path[3] = "rendered" THEN d.pages[path[2]].render
    ELSE d.pages[path[2]].images[((path[4] - 1) \div 100) + 1].content

----------------------------------------------------------------------------
(* The whole pipeline: analyze_pdf *)

PageWidth == 612
PageHeight == 792

\* a rectangle given by its corner and size in page units
Rc(x, y, w, h) ==
    [x0 |-> x * Unit, y0 |-> y * Unit,
     x1 |-> (x + w) * Unit, y1 |-> (y + h) * Unit]

\* an embedded image: format, whether extract_image, get_image_rects and
\* get_pixmap succeed, its placements and its picture
Im(ext, content, rects) ==
    [ext |-> ext, extract_ok |-> TRUE, rects_ok |-> TRUE, render_ok |-> TRUE,
     content |-> content, rects |-> rects]

\* a text line: the references keywords it contains, and whether it is
\* header-like (shorter than 100 characters or containing a digit)
Ln(keywords, header) == [keywords |-> keywords, header |-> header]

Pg(lines, images, render) ==
    [width |-> PageWidth * Unit, height |-> PageHeight * Unit,
     readable |-> TRUE, lines |-> lines, images |-> images, render |-> render]

Body == <<Ln({}, FALSE), Ln({}, TRUE)>>
Figure(content) == Im("png", content, <<Rc(100, 100, 200, 200)>>)

\* the documents analysed
Documents ==
    { \* no page after the first holds a qualifying image: an icon, and an
      \* image 260.5 x 128 units large
      [name |-> "icons", opens |-> TRUE,
       pages |-> <<Pg(Body, <<Figure(1)>>, 4),
                   Pg(Body, <<Im("png", 2, <<Rc(100, 100, 50, 50)>>),
                              Im("jpeg", 3,
                                 <<[x0 |-> 100 * Unit, y0 |-> 100 * Unit,
                                    x1 |-> 360 * Unit + 1,
                                    y1 |-> 228 * Unit]>>)>>, 5)>>],
      \* no page after the first holds any image
      [name |-> "text", opens |-> TRUE,
       pages |-> <<Pg(Body, <<>>, 4), Pg(Body, <<>>, 5)>>],
      \* one figure on page 2 and a near copy of it on page 3
      [name |-> "figures", opens |-> TRUE,
       pages |-> <<Pg(Body, <<>>, 4),
                   Pg(Body, <<Figure(1)>>, 4),
                   Pg(Body, <<Figure(2)>>, 4)>>],
      \* page 2: an unsupported format, then an image placed full-page and
      \* as a figure; page 3 is the references page; page 4 has a figure
      [name |-> "refs", opens |-> TRUE,
       pages |-> <<Pg(Body, <<>>, 4),
                   Pg(Body, <<Im("gif", 2, <<Rc(100, 100, 200, 200)>>),
                              Im("jpg", 3, <<Rc(0, 0, PageWidth, PageHeight),
                                             Rc(-10, 300, 250, 200)>>)>>, 4),
                   Pg(<<Ln({}, FALSE), Ln({"references"}, TRUE)>>,
                      <<Figure(4)>>, 4),
                   Pg(Body, <<Figure(5)>>, 4)>>],
      \* two figures on page 2 whose placements overlap
      [name |-> "overlap", opens |-> TRUE,
       pages |-> <<Pg(Body, <<>>, 4),
                   Pg(Body, <<Figure(1),
                              Im("png", 3, <<Rc(200, 200, 200, 200)>>)>>, 4)>>],
      \* reading page 2 raises; page 3 has a figure
      [name |-> "broken", opens |-> TRUE,
       pages |-> <<Pg(Body, <<>>, 4),
                   [Pg(Body, <<>>, 4) EXCEPT !.readable = FALSE],
                   Pg(Body, <<Figure(1)>>, 4)>>],
      \* the file cannot be opened
      [name |-> "missing", opens |-> FALSE, pages |-> <<>>] }

\* engine constructions the pipeline runs under
PipelineEnvironments ==
    {[reference_dir |-> FALSE, ref_files |-> 0, comparator |-> TRUE,
      searcher |-> FALSE, pdf2image |-> FALSE],
     [reference_dir |-> FALSE, ref_files |-> 0, comparator |-> TRUE,
      searcher |-> FALSE, pdf2image |-> TRUE],
     [reference_dir |-> TRUE, ref_files |-> 1, comparator |-> TRUE,
      searcher |-> TRUE, pdf2image |-> FALSE]}

Init ==
    /\ writers = NoWriters
    /\ lock = NoLock
    /\ doc \in Documents
    /\ env \in PipelineEnvironments
    /\ db \in {<<>>, <<Row(<<"corpus", 2, "diagram", 1>>, 1)>>}
    /\ files = <<>>
    /\ pc = "extract"
    /\ report = NewReport(QueryPath, 1)
    /\ diagram_reports = <<>>
    /\ extracted_paths = <<>>
    /\ final_report = NoFinalReport
    /\ similar_images = <<>>
    /\ last = NoCall

\* step 1, lines 80-93: extract_diagrams; an unopenable document raises
\* out of analyze_pdf, an empty list returns the error dictionary
Extract ==
    /\ pc = "extract"
    /\ IF ~doc.opens
       THEN /\ pc' = "raised"
            /\ UNCHANGED <<writers, lock, files, report, extracted_paths, final_report>>
       ELSE \E converts \in BOOLEAN :
              LET written == ExtractedList(doc, env.pdf2image, converts)
              IN  /\ (~env.pdf2image \/ extract_embedded_images(
                          doc, find_references_page(doc)) # <<>>) => converts
                  /\ files' = [p \in Range(written) |-> WrittenContent(doc, p)]
                  /\ extracted_paths' \in SetOrders(written)
                  /\ IF Len(written) = 0
                     THEN /\ final_report' = [NoFinalReport EXCEPT
                                                !.returned = TRUE,
                                                !.error = TRUE]
                          /\ pc' = "done"
                          /\ report' = report
                     ELSE /\ final_report' = final_report
                          /\ pc' = "hash"
                          /\ report' = NewReport(extracted_paths'[1], 1)
    /\ UNCHANGED <<writers, lock, db, env, diagram_reports, doc, similar_images, last>>

\* step 2, lines 98-102: the report of one diagram is appended and the
\* loop goes on to the next path
AppendReport ==
    /\ pc = "returned"
    /\ diagram_reports' = Append(diagram_reports, report)
    /\ IF Len(diagram_reports') < Len(extracted_paths)
       THEN /\ report' = NewReport(extracted_paths[Len(diagram_reports') + 1],
                                   Len(diagram_reports') + 1)
            /\ pc' = "hash"
       ELSE /\ report' = report
            /\ pc' = "summary"
    /\ UNCHANGED <<writers, lock, files, db, env, extracted_paths, final_report, doc,
                   similar_images, last>>

\* step 3, lines 104-115
FinalReport ==
    /\ pc = "summary"
    /\ final_report' = [returned |-> TRUE, error |-> FALSE,
                        totalDiagrams |-> Len(extracted_paths),
                        diagrams |-> diagram_reports,
                        hasSummary |-> TRUE,
                        summary |-> generate_summary(diagram_reports)]
    /\ pc' = "done"
    /\ UNCHANGED <<writers, lock, files, db, env, report, diagram_reports, extracted_paths,
                   doc, similar_images, last>>

Next ==
    \/ Extract
    \/ HashStep
    \/ CompareStep
    \/ SearchStep
    \/ DecideStep
    \/ AppendReport
    \/ FinalReport

Spec == Init /\ [][Next]_vars

\* the document opens, every page can be read, and no placement on the
\* pages after the first survives the filters
ZeroSurvivingRegions ==
    /\ doc.opens
    /\ \A n \in DOMAIN doc.pages : doc.pages[n].readable
    /\ extract_embedded_images(doc, find_references_page(doc)) = <<>>

\* C7: analysing a document whose pages yield zero surviving regions gives
\* zero artifacts and no error indication: extraction returns the empty
\* list and the document report carries no error
C7_ZeroRegionsNoError ==
    (pc = "done" /\ ZeroSurvivingRegions) =>
        /\ extracted_paths = <<>>
        /\ final_report.diagrams = <<>>
        /\ ~final_report.error

\* the placement rectangle an extracted diagram was cut from
RegionOf(d, path) ==
    d.pages[path[2]].images[((path[4] - 1) \div 100) + 1]
                    .rects[((path[4] - 1) % 100) + 1]

\* fitz.Rect.intersects: the rectangles have a non-empty rectangle in common
Intersects(r1, r2) ==
    /\ Max(r1.x0, r2.x0) < Min(r1.x1, r2.x1)
    /\ Max(r1.y0, r2.y0) < Min(r1.y1, r2.y1)

\* C16: two overlapping candidate rectangles on the same page always merge
\* into exactly one region: no two artifacts of a page come from
\* rectangles that overlap
C16_OverlappingMerged ==
    (pc # "extract" /\ doc.opens) =>
        \A i, j \in DOMAIN extracted_paths :
            (/\ i # j
             /\ extracted_paths[i][3] = "diagram"
             /\ extracted_paths[j][3] = "diagram"
             /\ extracted_paths[i][2] = extracted_paths[j][2])
            => ~Intersects(RegionOf(doc, extracted_paths[i]),
                           RegionOf(doc, extracted_paths[j]))

\* artifact order: ascending page number, then ascending region index
ArtifactBefore(p, q) == p[2] < q[2] \/ (p[2] = q[2] /\ p[4] < q[4])

\* C8: the per-artifact reports of the assembled report are in artifact
\* order (ascending page number, then ascending region index)
C8_ReportsInArtifactOrder ==
    (pc = "done" /\ final_report.hasSummary) =>
        \A i, j \in DOMAIN final_report.diagrams :
            i < j => ArtifactBefore(final_report.diagrams[i].diagram,
                                    final_report.diagrams[j].diagram)

----------------------------------------------------------------------------
(* _extract_embedded_images on a document with one placement on page 2 *)

\* corners and sizes of the placement, sizes in steps of 1/Unit
RegionX == {0, 20, 100}
RegionY == {0, 100}
RegionW == {50 * Unit, 128 * Unit, 260 * Unit, 260 * Unit + 1,
            470 * Unit, 600 * Unit}
RegionH == {50 * Unit, 128 * Unit, 128 * Unit + 1, 260 * Unit,
            500 * Unit, 780 * Unit}

OnePlacement(r) ==
    [name |-> "one", opens |-> TRUE,
     pages |-> <<Pg(Body, <<>>, 4), Pg(Body, <<Im("png", 1, <<r>>)>>, 4)>>]

InitRegion ==
    /\ writers = NoWriters
    /\ lock = NoLock
    /\ doc \in {OnePlacement([x0 |-> x * Unit, y0 |-> y * Unit,
                              x1 |-> x * Unit + w, y1 |-> y * Unit + h]) :
                   x \in RegionX, y \in RegionY, w \in RegionW, h \in RegionH}
    /\ env \in {e \in PipelineEnvironments : ~e.pdf2image /\ ~e.searcher}
    /\ db = <<>>
    /\ files = <<>>
    /\ pc = "region"
    /\ report = NewReport(QueryPath, 1)
    /\ diagram_reports = <<>>
    /\ extracted_paths = <<>>
    /\ final_report = NoFinalReport
    /\ similar_images = <<>>
    /\ last = NoCall

\* _extract_embedded_images(references_page), lines 140-260
ExtractEmbedded ==
    /\ pc = "region"
    /\ extracted_paths' = extract_embedded_images(doc, find_references_page(doc))
    /\ files' = [p \in Range(extracted_paths') |-> WrittenContent(doc, p)]
    /\ pc' = "extracted"
    /\ UNCHANGED <<writers, lock, db, env, report, diagram_reports,
                   final_report, doc, similar_images, last>>

SpecRegion == InitRegion /\ [][ExtractEmbedded]_vars

\* the placement of the document of InitRegion
ThePage == doc.pages[2]
ThePlacement == doc.pages[2].images[1].rects[1]

\* C17: a candidate region whose dimensions are exactly 260 x 128 or
\* 128 x 260 never becomes an artifact, whatever the other filters decide
C17_ExactDimensionExcluded ==
    (/\ pc = "extracted"
     /\ \/ (RectWidth(ThePlacement) = 260 * Unit
              /\ RectHeight(ThePlacement) = 128 * Unit)
        \/ (RectWidth(ThePlacement) = 128 * Unit
              /\ RectHeight(ThePlacement) = 260 * Unit))
    => extracted_paths = <<>>

\* a 260 x 128 placement that no other filter rejects and that is large
\* enough to be saved, after the extraction, which returned nothing
C17_Witness ==
    /\ pc = "extracted"
    /\ RectWidth(ThePlacement) = 260 * Unit
    /\ RectHeight(ThePlacement) = 128 * Unit
    /\ ~TooLargeArea(ThePage, ThePlacement)
    /\ ~SpansPage(ThePage, ThePlacement)
    /\ ~TooSmall(ThePlacement)
    /\ ~EdgeToEdge(ThePage, ThePlacement)
    /\ RegionSaved(ThePage, ThePage.images[1], ThePlacement)
    /\ extracted_paths = <<>>

----------------------------------------------------------------------------
(* compare_images on its own *)

\* compare_images(image1_path, image2_path); orb_score and ssim_score are
\* what _compute_orb_similarity and _compute_ssim return for the two
\* pictures.  cv2.imread gives None for a file it cannot decode, the
\* ValueError is logged and raised again (ok = FALSE)
compare_images(image1_path, image2_path, orb_score, ssim_score) ==
    IF files[image1_path] = Unreadable \/ files[image2_path] = Unreadable
    THEN [ok |-> FALSE, orbScore |-> 0, ssim |-> 0, matchPercentage |-> 0]
    ELSE [ok |-> TRUE, orbScore |-> orb_score, ssim |-> ssim_score,
          matchPercentage |-> match_percentage(orb_score, ssim_score)]

\* values of _compute_orb_similarity: a ratio good/all in [0, 1], percent
OrbRange == {0, 40, 100}
\* values of _compute_ssim: float(ssim(...)) in [-1, 1], percent
SsimRange == {-100, -50, 0, 70, 100}

FeaturePaths == {QueryPath, OtherPath}

InitFeature ==
    /\ writers = NoWriters
    /\ lock = NoLock
    /\ files \in [FeaturePaths -> {Unreadable, 1, 2, 3}]
    /\ env \in {e \in PipelineEnvironments : ~e.pdf2image /\ e.searcher}
    /\ db = <<>>
    /\ pc = "idle"
    /\ report = NewReport(QueryPath, 1)
    /\ diagram_reports = <<>>
    /\ extracted_paths = <<>>
    /\ final_report = NoFinalReport
    /\ doc = NoDoc
    /\ similar_images = <<>>
    /\ last = NoCall

CompareImages ==
    /\ pc = "idle"
    /\ \E orb_score \in OrbRange, ssim_score \in SsimRange :
         LET result == compare_images(QueryPath, OtherPath, orb_score, ssim_score)
         IN  /\ last' = [NoCall EXCEPT !.op = "compare_images",
                                       !.path = OtherPath,
                                       !.result = result]
             /\ pc' = IF result.ok THEN "returned" ELSE "raised"
    /\ UNCHANGED <<writers, lock, files, db, env, report, diagram_reports,
                   extracted_paths, final_report, doc, similar_images>>

SpecFeature == InitFeature /\ [][CompareImages]_vars

\* C18: compare_images on an unreadable or corrupt image returns a result
\* whose orbScore, ssim and matchPercentage are all 0 and does not raise
C18_ZeroResultOnUnreadable ==
    (/\ last.op = "compare_images"
     /\ \E p \in FeaturePaths : files[p] = Unreadable)
    => /\ pc = "returned"
       /\ last.result.orbScore = 0
       /\ last.result.ssim = 0
       /\ last.result.matchPercentage = 0

\* C19: for every match ratio in [0, 1] and every structural similarity
\* in [-1, 1] the matchPercentage compare_images returns is in [0, 100]
C19_MatchPercentageInRange ==
    (last.op = "compare_images" /\ pc = "returned")
    => /\ last.result.matchPercentage >= 0
       /\ last.result.matchPercentage <= 100 * 10

----------------------------------------------------------------------------
(* extract_diagrams of two documents by two workers that share the output
   base directory, as analyze_pdf gives every call the same output_base *)

\* line 49: Path(pdf_path).stem with every ' ' and '.' replaced by '_'; a
\* stem is a sequence of characters
pdf_name(stem) ==
    [i \in DOMAIN stem |-> IF stem[i] \in {" ", "."} THEN "_" ELSE stem[i]]

\* directories and file stems of the documents
PdfDirs == {"a", "b"}
PdfStems == {<<"p">>, <<"p", " ", "q">>, <<"p", "_", "q">>, <<"p", ".", "q">>}

\* the document at dir/stem.pdf: a figure on page 2 and one on page 3, both
\* showing picture content; its artifacts go to extracted/<pdf_name>/
PdfAt(dir, stem, content) ==
    [name |-> pdf_name(stem), pdf_path |-> <<dir, stem>>, opens |-> TRUE,
     pages |-> <<Pg(Body, <<>>, 4),
                 Pg(Body, <<Figure(content)>>, 4),
                 Pg(Body, <<Figure(content)>>, 4)>>]

Extractors == {1, 2}

InitParallel ==
    /\ doc \in {<<PdfAt(d1, s1, 1), PdfAt(d2, s2, 2)>> :
                  <<d1, s1, d2, s2>> \in
                     {t \in PdfDirs \X PdfStems \X PdfDirs \X PdfStems :
                         <<t[1], t[2]>> # <<t[3], t[4]>>}}
    /\ writers = [w \in Extractors |-> [pc |-> "init", pending |-> <<>>]]
    /\ lock = NoLock
    /\ files = <<>>
    /\ extracted_paths = [w \in Extractors |-> <<>>]
    /\ pc = "parallel"
    /\ env \in {e \in PipelineEnvironments : ~e.pdf2image /\ ~e.searcher}
    /\ db = <<>>
    /\ report = NewReport(QueryPath, 1)
    /\ diagram_reports = <<>>
    /\ final_report = NoFinalReport
    /\ similar_images = <<>>
    /\ last = NoCall

\* lines 36-54 and 113-117: the constructor fixes the output directory,
\* extract_diagrams finds the references page; what is left to do is one
\* _extract_region call for every placement that passes the filters
ExtractorInit ==
    /\ pc = "parallel"
    /\ \E w \in Extractors :
         /\ writers[w].pc = "init"
         /\ writers' = [writers EXCEPT
                          ![w].pc = "extract",
                          ![w].pending =
                             extract_embedded_images(
                                 doc[w], find_references_page(doc[w]))]
    /\ UNCHANGED <<lock, files, db, env, pc, report, diagram_reports,
                   extracted_paths, final_report, doc, similar_images, last>>

\* lines 638-643 and 247-248: pil_image.save writes the PNG, replacing a
\* file of that name, and the path is appended to the worker's list
ExtractRegion ==
    /\ pc = "parallel"
    /\ \E w \in Extractors :
         /\ writers[w].pc = "extract"
         /\ writers[w].pending # <<>>
         /\ LET path == Head(writers[w].pending)
            IN  /\ files' = [p \in DOMAIN files \cup {path} |->
                               IF p = path THEN WrittenContent(doc[w], path)
                               ELSE files[p]]
                /\ extracted_paths' =
                      [extracted_paths EXCEPT ![w] = Append(@, path)]
         /\ writers' = [writers EXCEPT ![w].pending = Tail(@)]
    /\ UNCHANGED <<lock, db, env, pc, report, diagram_reports, final_report,
                   doc, similar_images, last>>

\* lines 131-134: extract_diagrams returns the worker's list
ExtractorReturn ==
    /\ pc = "parallel"
    /\ \E w \in Extractors :
         /\ writers[w].pc = "extract"
         /\ writers[w].pending = <<>>
         /\ writers' = [writers EXCEPT ![w].pc = "done"]
    /\ UNCHANGED <<lock, files, db, env, pc, report, diagram_reports,
                   extracted_paths, final_report, doc, similar_images, last>>

NextParallel ==
    \/ ExtractorInit
    \/ ExtractRegion
    \/ ExtractorReturn

SpecParallel == InitParallel /\ [][NextParallel]_vars

\* C21: extraction of two different documents shares no state: the sets of
\* artifact paths written for the two documents are disjoint, and no file
\* a worker has written is overwritten by the other worker, so every path
\* a worker returns keeps the picture of that worker's document
C21_DisjointArtifactPaths ==
    pc = "parallel" =>
        \A v, w \in Extractors :
            v # w =>
                /\ Range(extracted_paths[v]) \cap Range(extracted_paths[w]) = {}
                /\ \A p \in Range(extracted_paths[w]) :
                      files[p] = WrittenContent(doc[w], p)

----------------------------------------------------------------------------
(* Claims about the pages extract_diagrams scans, checked under Spec *)

\* 0-based indices of the pages from the second page up to, and without,
\* the references page (all pages from the second on when there is none)
PagesBeforeBoundary(d) ==
    LET stop_at_page == find_references_page(d)
    IN  1..((IF stop_at_page >= 0 THEN Min(stop_at_page, Len(d.pages))
             ELSE Len(d.pages)) - 1)

\* a placement that no step of the loop rejects: the image can be read, has
\* a supported format and a position, passes the filters and is saved
ValidRegion(page, img, r) ==
    /\ img.extract_ok
    /\ img.ext \in {"jpg", "jpeg", "png"}
    /\ img.rects_ok
    /\ PassesFilters(page, r)
    /\ RegionSaved(page, img, r)

\* C22: a page, an embedded image or a region that fails during extraction
\* is skipped and extraction continues: the valid regions of every page
\* before the references boundary that can be read become artifacts,
\* whatever failed on the pages before it
C22_FailuresSkipped ==
    (pc # "extract" /\ doc.opens /\ ~env.pdf2image) =>
        \A n \in PagesBeforeBoundary(doc) :
            doc.pages[n + 1].readable =>
                \A i \in DOMAIN doc.pages[n + 1].images :
                    \A k \in DOMAIN doc.pages[n + 1].images[i].rects :
                        ValidRegion(doc.pages[n + 1],
                                    doc.pages[n + 1].images[i],
                                    doc.pages[n + 1].images[i].rects[k])
                        => DiagramPath(doc, n, i - 1, k - 1)
                              \in Range(extracted_paths)

----------------------------------------------------------------------------
(* compare_with_directory on its own: a directory of reference images and a
   threshold of the caller *)

MaxDirFiles == 3
\* what compare_images gives for the query and one reference image: it
\* raises, or the two scores in percent
DirOutcomes ==
    {[ok |-> FALSE, orbScore |-> 0, ssim |-> 0]} \cup
    {[ok |-> TRUE, orbScore |-> o, ssim |-> s] :
        o \in {0, 40, 100}, s \in {-50, 0, 100}}
\* thresholds of the caller, in percent
DirThresholds == {0, 35, 40, 100}

InitDirectory ==
    /\ files \in UNION {[1..n -> DirOutcomes] : n \in 0..MaxDirFiles}
    /\ last \in {[NoCall EXCEPT !.op = "compare_with_directory",
                                !.threshold = t] : t \in DirThresholds}
    /\ pc = "directory"
    /\ env \in {e \in Environments : e.reference_dir /\ e.ref_files = 0
                                       /\ e.comparator /\ ~e.searcher}
    /\ report = NewReport(QueryPath, 1)
    /\ writers = NoWriters
    /\ lock = NoLock
    /\ db = <<>>
    /\ diagram_reports = <<>>
    /\ extracted_paths = <<>>
    /\ final_report = NoFinalReport
    /\ doc = NoDoc
    /\ similar_images = <<>>

\* comparator.compare_with_directory(diagram_path, reference_dir, threshold)
CompareWithDirectory ==
    /\ pc = "directory"
    /\ report' = [report EXCEPT !.localSimilarity =
                    compare_with_directory(files, last.threshold)]
    /\ pc' = "compared"
    /\ UNCHANGED <<writers, lock, files, db, env, diagram_reports,
                   extracted_paths, final_report, doc, similar_images, last>>

SpecDirectory == InitDirectory /\ [][CompareWithDirectory]_vars

\* the reference images with a matchPercentage (compare_images returned)
\* that is at least the threshold
DirMatching ==
    {i \in DOMAIN files :
        /\ files[i].ok
        /\ match_percentage(files[i].orbScore, files[i].ssim)
              >= last.threshold * 10}

\* C23: compare_with_directory returns as matches exactly the reference
\* images whose matchPercentage/100 is at least the caller's threshold, each
\* once and with its scores, ordered by non-increasing matchPercentage; the
\* best match is the first and highest-scoring element of that list, and
\* there is no best match exactly when the list is empty
C23_DirectoryMatchesRanked ==
    pc = "compared" =>
        LET res == report.localSimilarity
        IN  /\ {res.matches[k].image : k \in DOMAIN res.matches} = DirMatching
            /\ Len(res.matches) = Cardinality(DirMatching)
            /\ \A k \in DOMAIN res.matches :
                  LET f == files[res.matches[k].image]
                  IN  /\ res.matches[k].score =
                            match_percentage(f.orbScore, f.ssim)
                      /\ res.matches[k].orbScore = f.orbScore
                      /\ res.matches[k].ssim = f.ssim
            /\ \A k, l \in DOMAIN res.matches :
                  k < l => res.matches[k].score >= res.matches[l].score
            /\ res.hasBest <=> (res.matches # <<>>)
            /\ res.hasBest =>
                  /\ res.bestMatch = res.matches[1]
                  /\ res.bestScore = res.bestMatch.score
                  /\ \A k \in DOMAIN res.matches :
                        res.bestMatch.score >= res.matches[k].score
            /\ ~res.hasBest => res.bestScore = 0
            /\ res.totalCompared = Len(files)

\* three reference images: the first scores exactly the threshold of 40,
\* the second is below it, the third scores 100; the result ranks the third
\* before the first and leaves the second out
C23_Witness ==
    /\ pc = "compared"
    /\ last.threshold = 40
    /\ Len(files) = 3
    /\ files[1] = [ok |-> TRUE, orbScore |-> 100, ssim |-> 0]
    /\ files[2] = [ok |-> TRUE, orbScore |-> 40, ssim |-> 0]
    /\ files[3] = [ok |-> TRUE, orbScore |-> 100, ssim |-> 100]
    /\ Len(report.localSimilarity.matches) = 2
    /\ report.localSimilarity.matches[1].image = 3
    /\ report.localSimilarity.matches[2].image = 1
    /\ report.localSimilarity.bestMatch.image = 3

----------------------------------------------------------------------------
(* Confidence accumulation of _analyze_diagram, checked under SpecArtifact *)

\* the increment that goes with an entry of report['indicators'], in
\* hundredths (lines 157-158, 177-178, 181-182, 200-201)
SignalWeight(indicator) ==
    CASE indicator = "Strong hash match detected" -> 30
      [] indicator = "High SSIM similarity" -> 40
      [] indicator = "ORB match percentage" -> 20
      [] indicator = "Visually similar images found on Google" -> 30

RECURSIVE FiredWeight(_)
FiredWeight(indicators) ==
    IF indicators = <<>> THEN 0
    ELSE SignalWeight(Head(indicators)) + FiredWeight(Tail(indicators))

\* C24: during one _analyze_diagram run the confidence starts at 0 and
\* never decreases from one step to the next; in every reachable state it
\* is non-negative and equals the sum of the weights of the signals that
\* have fired so far, each signal firing at most once
C24_ConfidenceMonotone ==
    /\ [](/\ report.confidence >= 0
          /\ report.confidence = FiredWeight(report.indicators)
          /\ \A i, j \in DOMAIN report.indicators :
                i # j => report.indicators[i] # report.indicators[j]
          /\ pc = "hash" => report.confidence = 0)
    /\ [][report'.confidence >= report.confidence]_vars

\* all four signals have fired before the decision: 0.3 + 0.4 + 0.2 + 0.3
C24_Witness ==
    /\ pc = "decide"
    /\ Len(report.indicators) = 4
    /\ report.confidence = 120

----------------------------------------------------------------------------
(* _merge_overlapping_regions on its own *)

MERGE_GAP == 50           \* distance < 50

\* _rect_distance, squared: the horizontal and the vertical gap of the two
\* rectangles, each 0 when they overlap in that direction
rect_distance_squared(rect1, rect2) ==
    LET h_dist == Max(0, Max(rect1.x0 - rect2.x1, rect2.x0 - rect1.x1))
        v_dist == Max(0, Max(rect1.y0 - rect2.y1, rect2.y0 - rect1.y1))
    IN  h_dist * h_dist + v_dist * v_dist

\* line 561: distance < 50 or current.intersects(rect2)
ShouldMerge(current, rect2) ==
    \/ rect_distance_squared(current, rect2)
          < (MERGE_GAP * Unit) * (MERGE_GAP * Unit)
    \/ Intersects(current, rect2)

\* lines 563-568: the bounding box of the two rectangles
UnionRect(current, rect2) ==
    [x0 |-> Min(current.x0, rect2.x0), y0 |-> Min(current.y0, rect2.y0),
     x1 |-> Max(current.x1, rect2.x1), y1 |-> Max(current.y1, rect2.y1)]

\* one pass of the for loop of lines 555-570 from index j on; st holds
\* current, used and changed
RECURSIVE MergePass(_, _, _)
MergePass(regions, st, j) ==
    IF j > Len(regions) THEN st
    ELSE IF st.used[j] THEN MergePass(regions, st, j + 1)
    ELSE IF ShouldMerge(st.current, regions[j])
         THEN MergePass(regions,
                        [current |-> UnionRect(st.current, regions[j]),
                         used |-> [st.used EXCEPT ![j] = TRUE],
                         changed |-> TRUE], j + 1)
         ELSE MergePass(regions, st, j + 1)

\* the while loop of lines 552-570: passes until one changes nothing
RECURSIVE GrowCurrent(_, _)
GrowCurrent(regions, st) ==
    LET after == MergePass(regions, [st EXCEPT !.changed = FALSE], 1)
    IN  IF after.changed THEN GrowCurrent(regions, after) ELSE after

\* the outer loop of lines 544-572 from index i on: a rectangle not yet
\* used starts a region, which is appended once it has stopped growing and
\* is not looked at again
RECURSIVE MergeFrom(_, _, _, _)
MergeFrom(regions, i, used, merged) ==
    IF i > Len(regions) THEN merged
    ELSE IF used[i] THEN MergeFrom(regions, i + 1, used, merged)
    ELSE LET grown == GrowCurrent(regions,
                          [current |-> regions[i],
                           used |-> [used EXCEPT ![i] = TRUE],
                           changed |-> TRUE])
         IN  MergeFrom(regions, i + 1, grown.used,
                       Append(merged, grown.current))

merge_overlapping_regions(regions) ==
    MergeFrom(regions, 1, [i \in DOMAIN regions |-> FALSE], <<>>)

MaxRects == 3
\* candidate rectangles of a page: a small box, a bar down the left edge
\* and a bar below the box, whose bounding box contains the small box; a
\* box overlapping the small box, one 30 units beside it and one far away
MergeRects ==
    {Rc(100, 100, 10, 10), Rc(0, 0, 10, 200), Rc(0, 190, 200, 10),
     Rc(105, 105, 45, 45), Rc(140, 100, 20, 10), Rc(300, 300, 100, 100)}

InitMerge ==
    /\ last \in {[op |-> "merge_overlapping_regions", regions |-> regions,
                  result |-> <<>>] :
                    regions \in UNION {[1..n -> MergeRects] : n \in 0..MaxRects}}
    /\ pc = "merge"
    /\ env \in {e \in PipelineEnvironments : ~e.pdf2image /\ ~e.searcher}
    /\ report = NewReport(QueryPath, 1)
    /\ writers = NoWriters
    /\ lock = NoLock
    /\ files = <<>>
    /\ db = <<>>
    /\ diagram_reports = <<>>
    /\ extracted_paths = <<>>
    /\ final_report = NoFinalReport
    /\ doc = NoDoc
    /\ similar_images = <<>>

MergeOverlappingRegions ==
    /\ pc = "merge"
    /\ last' = [last EXCEPT !.result = merge_overlapping_regions(last.regions)]
    /\ pc' = "merged"
    /\ UNCHANGED <<writers, lock, files, db, env, report, diagram_reports,
                   extracted_paths, final_report, doc, similar_images>>

SpecMerge == InitMerge /\ [][MergeOverlappingRegions]_vars

\* the orders of a list
Reorderings(s) ==
    {[k \in DOMAIN s |-> s[p[k]]] :
        p \in {q \in [DOMAIN s -> DOMAIN s] :
                  \A a, b \in DOMAIN s : a # b => q[a] # q[b]}}

----------------------------------------------------------------------------
(* Claims about the artifacts of extract_diagrams, checked under Spec *)

\* the part of the page an artifact shows: the whole page for a page
\* rendered by the pdf2image fallback, else the placement rectangle clamped
\* to the page
ArtifactRegion(d, path) ==
    IF path[3] = "rendered"
    THEN [x0 |-> 0, y0 |-> 0,
          x1 |-> d.pages[path[2]].width, y1 |-> d.pages[path[2]].height]
    ELSE ClampToPage(d.pages[path[2]], RegionOf(d, path))

\* C26: every region that extract_diagrams turns into an artifact passed
\* all geometric filters: its width and height are at least 100, its area
\* is at most 60% of the page area, its width and height are at most 75% of
\* the page width and height, and it does not touch all four page edges
\* within the 5% margin
C26_ArtifactsPassFilters ==
    (pc # "extract" /\ doc.opens) =>
        \A i \in DOMAIN extracted_paths :
            LET page == doc.pages[extracted_paths[i][2]]
                r == ArtifactRegion(doc, extracted_paths[i])
            IN  /\ RectWidth(r) >= 100 * Unit
                /\ RectHeight(r) >= 100 * Unit
                /\ RectArea(r) * 100 <= page.width * page.height * 60
                /\ RectWidth(r) * 100 <= page.width * 75
                /\ RectHeight(r) * 100 <= page.height * 75
                /\ ~(/\ r.x0 * 100 < page.width * 5
                     /\ r.y0 * 100 < page.height * 5
                     /\ r.x1 * 100 > page.width * 95
                     /\ r.y1 * 100 > page.height * 95)

\* C27: no artifact returned by extract_diagrams comes from the first page
\* of the document, and none comes from the references page or a page
\* after it; when no references page is found and every page can be read,
\* every page from the second to the last is scanned, so each of their
\* valid regions is an artifact
C27_FirstAndReferencePagesSkipped ==
    (pc # "extract" /\ doc.opens) =>
        /\ \A i \in DOMAIN extracted_paths :
              /\ extracted_paths[i][2] # 1
              /\ find_references_page(doc) >= 0
                    => extracted_paths[i][2] - 1 < find_references_page(doc)
        /\ (/\ find_references_page(doc) = -1
            /\ \A n \in DOMAIN doc.pages : doc.pages[n].readable
            /\ extract_embedded_images(doc, -1) # <<>>)
           => \A n \in 1..(Len(doc.pages) - 1) :
                 \A i \in DOMAIN doc.pages[n + 1].images :
                    \A k \in DOMAIN doc.pages[n + 1].images[i].rects :
                        ValidRegion(doc.pages[n + 1],
                                    doc.pages[n + 1].images[i],
                                    doc.pages[n + 1].images[i].rects[k])
                        => DiagramPath(doc, n, i - 1, k - 1)
                              \in Range(extracted_paths)

----------------------------------------------------------------------------
(* search_with_api of ocr_diagram_search.py: one API call of an external
   search provider with its retry loop *)

MAX_RETRIES == 2          \* max_retries: int = 2, the value of every caller

ApiNames == {"duckduckgo", "noapi", "google"}
\* what one request gives: a status code, or the exception it raises; a
\* 200 response carries JSON or not, and an exception other than the three
\* requests exceptions mentions CERTIFICATE_VERIFY_FAILED or not
Responses ==
    {"200_json", "200_not_json", "202", "429", "401", "403", "404", "500",
     "SSLError", "Timeout", "ConnectionError", "certificate_error",
     "other_error"}

\* lines 576-650: whether the loop goes on to another attempt after this
\* response
Retries(api_name, response, attempt, verify_ssl) ==
    CASE response \in {"200_json", "200_not_json", "401", "403", "404"} -> FALSE
      [] response = "202" -> api_name # "duckduckgo" /\ attempt < MAX_RETRIES
      [] response = "SSLError" -> verify_ssl /\ attempt < MAX_RETRIES
      [] OTHER -> attempt < MAX_RETRIES

InitProvider ==
    /\ last \in {[op |-> "search_with_api", api |-> a, method |-> m,
                  available |-> av, attempt |-> 0, requests |-> 0,
                  verify_ssl |-> (a # "noapi"), response |-> "none",
                  result |-> "none"] :
                    a \in ApiNames, m \in {"POST", "GET"}, av \in BOOLEAN}
    /\ pc = "request"
    /\ env \in {e \in PipelineEnvironments : ~e.pdf2image /\ ~e.searcher}
    /\ report = NewReport(QueryPath, 1)
    /\ writers = NoWriters
    /\ lock = NoLock
    /\ files = <<>>
    /\ db = <<>>
    /\ diagram_reports = <<>>
    /\ extracted_paths = <<>>
    /\ final_report = NoFinalReport
    /\ doc = NoDoc
    /\ similar_images = <<>>

\* lines 515-517: without the requests library the call returns None
\* before any request
NoRequestsLibrary ==
    /\ pc = "request"
    /\ ~last.available
    /\ last' = [last EXCEPT !.result = "None"]
    /\ pc' = "returned"
    /\ UNCHANGED <<writers, lock, files, db, env, report, diagram_reports,
                   extracted_paths, final_report, doc, similar_images>>

\* one turn of the loop of lines 537-650: a request and what follows from
\* its response: the JSON is returned, None is returned, or the loop goes
\* on with the next attempt, without SSL verification after an SSL error
SendRequest ==
    /\ pc = "request"
    /\ last.available
    /\ \E response \in Responses :
         LET again == Retries(last.api, response, last.attempt,
                              last.verify_ssl)
         IN  /\ last' = [last EXCEPT
                           !.requests = @ + 1,
                           !.response = response,
                           !.attempt = IF again THEN @ + 1 ELSE @,
                           !.verify_ssl =
                              IF response \in {"SSLError", "certificate_error"}
                                 /\ (again \/ response = "certificate_error")
                              THEN FALSE ELSE @,
                           !.result = IF again THEN "none"
                                      ELSE IF response = "200_json"
                                           THEN "json" ELSE "None"]
             /\ pc' = IF again THEN "request" ELSE "returned"
    /\ UNCHANGED <<writers, lock, files, db, env, report, diagram_reports,
                   extracted_paths, final_report, doc, similar_images>>

NextProvider == NoRequestsLibrary \/ SendRequest

SpecProvider == InitProvider /\ [][NextProvider]_vars

\* C28: a call to an external signal provider is attempted at most twice,
\* the initial attempt and at most one retry, under every sequence of
\* timeouts, errors and rate-limit responses; after the last attempt the
\* call has ended and, without a JSON response, returned no signal
C28_AtMostOneRetry ==
    /\ last.requests <= 2
    /\ (last.requests = 2 /\ last.response # "200_json")
          => (pc = "returned" /\ last.result = "None")

----------------------------------------------------------------------------
(* The decision of a returned report, checked under SpecArtifact *)

\* C29: every report _analyze_diagram returns has the decision that the
\* thresholds 0.7 and 0.4 give for the confidence stored in that report;
\* this includes a report whose analysis was cut short by an exception and
\* carries an error entry, which keeps the decision original it started
\* with and the confidence collected before the exception
C29_DecisionMatchesConfidence ==
    pc = "returned" =>
        /\ report.decision =
              (IF report.confidence >= 70 THEN "heavily plagiarized"
               ELSE IF report.confidence >= 40 THEN "partially plagiarized"
               ELSE "original")
        /\ report.error => report.decision = "original"

\* the lookup gave a strong hash match (+0.3), then listing the reference
\* directory raised: the error report has confidence 0.3 and is original
C29_Witness ==
    /\ pc = "returned"
    /\ report.error
    /\ report.hashMatches.present
    /\ report.confidence = 30
    /\ report.decision = "original"

----------------------------------------------------------------------------
(* analyze_pdf run twice on the same document, starting from an empty hash
   store, by an engine without reference directory and reverse search; the
   store and the extracted files stay between the runs *)

\* a document with the same picture placed on page 2 and on page 3
Twins(content) ==
    [name |-> "twins", opens |-> TRUE,
     pages |-> <<Pg(Body, <<>>, 4),
                 Pg(Body, <<Figure(content)>>, 4),
                 Pg(Body, <<Figure(content)>>, 4)>>]

InitRerun ==
    /\ doc \in {Twins(1), Twins(3)} \cup {d \in Documents : d.name = "figures"}
    /\ env \in {e \in PipelineEnvironments : ~e.reference_dir /\ ~e.searcher}
    /\ db = <<>>
    /\ last = [op |-> "analyze_pdf", run |-> 1, first |-> NoFinalReport,
               stored |-> FALSE]
    /\ files = <<>>
    /\ pc = "extract"
    /\ report = NewReport(QueryPath, 1)
    /\ diagram_reports = <<>>
    /\ extracted_paths = <<>>
    /\ final_report = NoFinalReport
    /\ similar_images = <<>>
    /\ writers = NoWriters
    /\ lock = NoLock

\* every extracted path has a row in the hash store
AllStored ==
    \A p \in Range(extracted_paths) : \E i \in DOMAIN db : db[i].filePath = p

\* analyze_pdf is called again for the same document once the first call
\* has returned; what the first call returned is kept in last
AnalyzeAgain ==
    /\ pc = "done"
    /\ last.run = 1
    /\ last' = [last EXCEPT !.run = 2, !.first = final_report,
                            !.stored = AllStored]
    /\ pc' = "extract"
    /\ report' = NewReport(QueryPath, 1)
    /\ diagram_reports' = <<>>
    /\ extracted_paths' = <<>>
    /\ final_report' = NoFinalReport
    /\ similar_images' = <<>>
    /\ UNCHANGED <<writers, lock, files, db, env, doc>>

NextRerun ==
    \/ Extract
    \/ HashStep
    \/ CompareStep
    \/ SearchStep
    \/ DecideStep
    \/ AppendReport
    \/ FinalReport
    \/ AnalyzeAgain

SpecRerun == InitRerun /\ [][NextRerun]_vars

\* the report received the hash increment of 0.3
HashIncrement(r) == "Strong hash match detected" \in Range(r.indicators)

\* the document report has a report without error for every diagram
NoErrors(fr) ==
    fr.hasSummary /\ \A i \in DOMAIN fr.diagrams : ~fr.diagrams[i].error

\* two artifacts with different paths and identical pHash
TwoWithSamePHash ==
    /\ Len(extracted_paths) = 2
    /\ extracted_paths[1] # extracted_paths[2]
    /\ compute_hashes(extracted_paths[1]).pHash
          = compute_hashes(extracted_paths[2]).pHash

====
